---- MODULE Spec2Model ----
(***************************************************************************)
(* Model of the speed test server of src/index.js: the payload generator   *)
(* and its cache (generateTestData), and the three streaming sessions that *)
(* push payloads to the response: the fixed-size download (sendChunk), the *)
(* warmup (sendPhase) and the adaptive download (sendData); and the two    *)
(* measuring handlers, the latency probe and the upload.                   *)
(*                                                                         *)
(* Numbers.  JavaScript numbers are modelled as exact rationals n/d in     *)
(* lowest terms, or NaN.  Buffer sizes are true byte counts.  Time is in   *)
(* milliseconds and each session stores the time elapsed since its own     *)
(* start (now - startTime), which is all the code ever reads of the clock. *)
(*                                                                         *)
(* Buffers.  A buffer is its identity (the number of the generation that   *)
(* made it), its length and the way it was filled; a chunk written to the  *)
(* response is a slice (buffer, from, len) of a buffer.                    *)
(***************************************************************************)
EXTENDS Integers, Sequences, FiniteSets, TLC

VARIABLES
  testDataCache,  \* the Map of line 58: key -> buffer
  nextId,         \* number of buffers generated so far (identity of the next)
  sess,           \* one record per connection: the handler's closure, the
                  \* response (sink) and the history of what was sent
  requests,       \* number of requests accepted so far
  probe,          \* the closure and the response of a latency probe
  upload          \* the response to an upload

vars == <<testDataCache, nextId, sess, requests, probe, upload>>

(***************************************************************************)
(* Bounds of the model.                                                    *)
(***************************************************************************)
MaxRequests == 2   \* requests accepted in one run
MaxSteps == 12     \* clock steps a session is followed for
MaxLate == 1       \* clock steps a timeout may fire late by, or a drain take
MaxEvents == 2     \* cancellation events emitted on one connection
MaxSkew == 1       \* steps of SkewStep a reading of the fine clock may be late by
SkewStep == 4      \* in units of the fine clock

\* Time advances in steps of ClockStep milliseconds.
ClockStep == 100

\* The connections, and the one a run with a single client uses.
Sessions == {1, 2}

Single == {1}

(***************************************************************************)
(* Numbers.                                                                *)
(***************************************************************************)
Abs(x) == IF x < 0 THEN -x ELSE x

Min(a, b) == IF a <= b THEN a ELSE b

RECURSIVE Gcd(_, _)
Gcd(a, b) == IF b = 0 THEN a ELSE Gcd(b, a % b)

\* The number n/d (d > 0), in lowest terms.
Num(n, d) ==
  LET g == Gcd(Abs(n), d)
  IN  IF n = 0 THEN [nan |-> FALSE, n |-> 0, d |-> 1]
      ELSE [nan |-> FALSE, n |-> n \div g, d |-> d \div g]

NaN == [nan |-> TRUE, n |-> 0, d |-> 1]

\* a < b and a > b on JavaScript numbers: every comparison with NaN is false.
Lt(a, b) == ~a.nan /\ ~b.nan /\ a.n * b.d < b.n * a.d

Gt(a, b) == Lt(b, a)

Ge(a, b) == ~a.nan /\ ~b.nan /\ a.n * b.d >= b.n * a.d

Plus(a, b) == Num(a.n * b.d + b.n * a.d, a.d * b.d)

Minus(a, b) == Num(a.n * b.d - b.n * a.d, a.d * b.d)

\* a * b, the factors reduced crosswise first to keep the products small.
Times(a, b) ==
  LET g1 == IF a.n = 0 THEN 1 ELSE Gcd(Abs(a.n), b.d)
      g2 == IF b.n = 0 THEN 1 ELSE Gcd(Abs(b.n), a.d)
  IN  Num((a.n \div g1) * (b.n \div g2), (a.d \div g2) * (b.d \div g1))

\* a / b for b > 0
Over(a, b) == Times(a, [nan |-> FALSE, n |-> b.d, d |-> b.n])

\* Math.min, Math.max
MathMin(a, b) == IF Lt(b, a) THEN b ELSE a

MathMax(a, b) == IF Gt(b, a) THEN b ELSE a

\* The whole part of a number >= 0.
Trunc(a) == a.n \div a.d

\* size * 1024 * 1024 for a size n/d >= 0, as whole bytes and the remainder
\* (in 1/d of a byte): n * 2^20 = whole * d + rest.  Computed in two steps of
\* 1024 to stay within 32-bit integers.
MulMB(size) ==
  LET a  == size.n * 1024
      q1 == a \div size.d
      r1 == a % size.d
      b  == r1 * 1024
  IN  [whole |-> q1 * 1024 + (b \div size.d), rest |-> b % size.d, d |-> size.d]

(***************************************************************************)
(* Payload generator and cache: lines 57-96.                               *)
(***************************************************************************)
FillByte == 65    \* 0x41
LoopMul == 137
LoopAdd == 19

\* Faulty variant of CacheKey: the key leaves the pattern out.
CacheKeySizeOnly(sizeInMB, pattern) == <<sizeInMB, "random">>

\* key = `${sizeInMB}mb_${pattern}`: the decimal text of a number holds no
\* "m", so the text determines the (number, pattern) pair and conversely.
CacheKey(sizeInMB, pattern) == <<sizeInMB, pattern>>

\* Faulty variant of AllocLength: the size rounded to the nearest byte.
AllocLengthRounded(bytes) ==
  IF 2 * bytes.rest >= bytes.d THEN bytes.whole + 1 ELSE bytes.whole

\* Length of the buffer that crypto.randomBytes(x) / Buffer.alloc(x) make
\* for a non-integer x >= 0: the size is truncated (size >>> 0, ToIndex).
AllocLength(bytes) == bytes.whole

\* Faulty variant of LoopCount: the loop stops one byte early.
LoopCountShort(bytes) == bytes.whole - 1

\* Number of iterations of "for (let i = 0; i < sizeInBytes; i++)".
LoopCount(bytes) == IF bytes.rest = 0 THEN bytes.whole ELSE bytes.whole + 1

\* Faulty variant of FillOf: the default case leaves the buffer zeroed.
FillOfDefaultZero(pattern, bytes) ==
  CASE pattern = "random" -> [how |-> "randomBytes", value |-> 0, upto |-> 0]
    [] pattern = "compressible" ->
         [how |-> "alloc", value |-> FillByte, upto |-> 0]
    [] pattern = "incompressible" ->
         [how |-> "loop", value |-> 0, upto |-> LoopCount(bytes)]
    [] OTHER -> [how |-> "alloc", value |-> 0, upto |-> 0]

\* The switch of lines 68-83: how the new buffer is filled.
FillOf(pattern, bytes) ==
  CASE pattern = "random" -> [how |-> "randomBytes", value |-> 0, upto |-> 0]
    [] pattern = "compressible" ->
         [how |-> "alloc", value |-> FillByte, upto |-> 0]
    [] pattern = "incompressible" ->
         [how |-> "loop", value |-> 0, upto |-> LoopCount(bytes)]
    [] OTHER -> [how |-> "randomBytes", value |-> 0, upto |-> 0]

\* The buffer made on a cache miss, the id-th buffer ever made.
NewBuffer(id, sizeInMB, pattern) ==
  LET sizeInBytes == MulMB(sizeInMB)
  IN  [id |-> id, len |-> AllocLength(sizeInBytes),
       fill |-> FillOf(pattern, sizeInBytes)]

\* testDataCache.has(key)
CacheHas(c, key) == key \in DOMAIN c

\* Faulty variant of CacheSet: the cache keeps the newest entry only.
CacheSetEvicting(c, key, buffer) == [k \in {key} |-> buffer]

\* testDataCache.set(key, buffer)
CacheSet(c, key, buffer) ==
  [k \in DOMAIN c \cup {key} |-> IF k = key THEN buffer ELSE c[k]]

\* Faulty variant of MustGenerate: the cache is never consulted.
AlwaysGenerate(c, key) == TRUE

\* Is the buffer generated for this call (the test of line 64)?
MustGenerate(c, key) == ~CacheHas(c, key)

\* generateTestData(sizeInMB, pattern) in the state (c, id): the cache and
\* the generation count it leaves, and the buffer it returns.
GenerateTestData(c, id, sizeInMB, pattern) ==
  LET key == CacheKey(sizeInMB, pattern)
      c2  == IF MustGenerate(c, key)
             THEN CacheSet(c, key, NewBuffer(id, sizeInMB, pattern))
             ELSE c
      id2 == IF MustGenerate(c, key) THEN id + 1 ELSE id
  IN  [cache |-> c2, nextId |-> id2, data |-> c2[key]]

\* Byte i (0 <= i < len) of a buffer whose content the code determines.
\* A buffer of random bytes has no content the model knows: it equals
\* itself only.
ByteAt(buffer, i) ==
  CASE buffer.fill.how = "alloc" -> buffer.fill.value
    [] buffer.fill.how = "loop" ->
         IF i < buffer.fill.upto THEN (i * LoopMul + LoopAdd) % 256 ELSE 0
    [] OTHER -> -1

\* Faulty variant of commonSizes: the sizes below 5 MB are left out.
commonSizesLarge == <<Num(5, 1), Num(10, 1), Num(25, 1), Num(50, 1)>>

\* commonSizes, line 92.
commonSizes ==
  <<Num(1, 10), Num(1, 2), Num(1, 1), Num(2, 1), Num(5, 1), Num(10, 1),
    Num(25, 1), Num(50, 1)>>

\* The forEach of lines 93-96, from the k-th size on.
RECURSIVE PreGenerate(_, _, _)
PreGenerate(c, id, k) ==
  IF k > Len(commonSizes) THEN [cache |-> c, nextId |-> id]
  ELSE LET g1 == GenerateTestData(c, id, commonSizes[k], "random")
           g2 == GenerateTestData(g1.cache, g1.nextId, commonSizes[k],
                                  "compressible")
       IN  PreGenerate(g2.cache, g2.nextId, k + 1)

EmptyCache == [k \in {} |-> 0]

Startup == PreGenerate(EmptyCache, 0, 1)

\* Does generateTestData throw?  crypto.randomBytes rejects a size above
\* 2^31 - 1 bytes and an allocation of that order fails as well; the model
\* asks only for sizes far below or far above that.
GenerateThrows(sizeInMB) == Ge(sizeInMB, Num(2048, 1))

(***************************************************************************)
(* A session: the closure of one request handler, its response, and the    *)
(* history of what the handler did to the response.                        *)
(***************************************************************************)
NoBuffer == [id |-> -1, len |-> 0,
             fill |-> [how |-> "none", value |-> 0, upto |-> 0]]

Zero == Num(0, 1)

\* The events the handlers listen to with cleanup.
CancelEvents == {"req.close", "req.aborted", "res.close", "res.error"}

IdleSession ==
  [kind |-> "idle",          \* idle, download, warmup or adaptive
   req |-> 0,                \* the number of the request served
   size |-> Zero,            \* the size parameter of a download, parsed
   \* the handler's closure
   testData |-> NoBuffer, offset |-> 0, isFinished |-> FALSE,
   currentPhase |-> 0,
   initialSize |-> Zero, maxSize |-> Zero, duration |-> Zero, throttle |-> Zero,
   pattern |-> "", currentSize |-> Zero,
   clock |-> 0,              \* getHighResolutionTime() - startTime, in ms
   listening |-> FALSE,      \* the cleanup listeners are registered
   pending |-> {},           \* continuations: setImmediate, setTimeout, once("drain")
   \* the response
   status |-> 0,             \* status of a JSON response sent (400, 500), else 0
   headersSent |-> FALSE, destroyed |-> FALSE, needDrain |-> FALSE,
   emitted |-> 0,            \* how many of the CancelEvents were emitted
   \* history
   writes |-> <<>>,          \* the chunks passed to res.write, in order
   endCalls |-> 0,           \* calls of res.end()
   cleanupCalls |-> 0,       \* calls of cleanup()
   outcome |-> "active",     \* the path that set isFinished
   cancelled |-> FALSE,      \* a cancellation event has been delivered
   via |-> "none",           \* what ran last: handler, immediate, timeout, drain, event
   lastRun |-> "none"]       \* what it did: noop, write, end, caught, timer, event

\* A continuation: what triggers it, what it calls, and for a timeout the
\* session clock at which it is due (delay: the delay a drain listener gives
\* to the timeout it sets).
Cont(on, call, at, delay) == [on |-> on, call |-> call, at |-> at, delay |-> delay]

\* setTimeout(call, delay) at the session's clock; a delay is cut to whole ms.
SetTimeout(r, call, delay) ==
  [r EXCEPT !.pending = @ \cup {Cont("timeout", call, r.clock + delay, 0)}]

\* res.once("drain", listener); the continuation keeps the session clock
\* of the call.
OnceDrain(r, call, delay) ==
  [r EXCEPT !.pending = @ \cup {Cont("drain", call, r.clock, delay)}]

\* buffer.slice(from, to)
Slice(buffer, from, to) == [buf |-> buffer.id, from |-> from, len |-> to - from]

\* res.write(chunk), returning ok (false: backpressure).
ResWrite(r, chunk, ok) ==
  [r EXCEPT !.writes = Append(@, chunk), !.headersSent = TRUE,
            !.needDrain = @ \/ ~ok, !.lastRun = "write"]

\* res.end()
ResEnd(r) ==
  [r EXCEPT !.endCalls = @ + 1, !.headersSent = TRUE, !.lastRun = "end"]

\* cleanup(), lines 201-203, 289-291, 447-449, called on the given path.
Cleanup(r, path) ==
  [r EXCEPT !.isFinished = TRUE, !.cleanupCalls = @ + 1,
            !.outcome = IF r.isFinished THEN @ ELSE path]

\* Faulty variant of Stopped: the finished flag is not read.
StoppedIfDestroyed(r) == r.destroyed

\* The guard at the head of sendChunk, sendPhase and sendData.
Stopped(r) == r.isFinished \/ r.destroyed

\* The guard of the writes and ends inside sendPhase and sendData.
CanWrite(r) == ~r.destroyed /\ ~r.isFinished

\* A response that is a JSON body with a status, res.status(n).json(...).
JsonResponse(r, status) == [r EXCEPT !.status = status, !.headersSent = TRUE]

\* res.setHeader(name, value) throws on a value that holds a character not
\* allowed in a header, such as a line feed.
SetHeaderThrows(value) == value = "x\ny"

\* A session with the cache and the generation count a step leaves.
Bundle(r, c, id) == [r |-> r, cache |-> c, nextId |-> id]

(***************************************************************************)
(* Fixed-size download: lines 259-335.                                     *)
(***************************************************************************)
\* parseFloat of a parameter: a decimal with two places (given in
\* hundredths) or no number at all.
ParseFloat(raw) == IF raw.numeric THEN Num(raw.hundredths, 100) ELSE NaN

\* req.query.pattern || "random": an absent parameter is "".
PatternOf(raw) == IF raw = "" THEN "random" ELSE raw

\* Faulty variant of InvalidSize: 10 MB itself is refused.
InvalidSizeStrict(size) ==
  size.nan \/ Lt(size, Num(1, 10)) \/ Ge(size, Num(10, 1))

\* The test of line 264.
InvalidSize(size) == size.nan \/ Lt(size, Num(1, 10)) \/ Gt(size, Num(10, 1))

\* Faulty variant of chunkSize: 64 * 1000 for 64 * 1024.
chunkSizeDecimal == 64 * 1000

chunkSize == 64 * 1024

\* Faulty variant of AfterChunk: the result of the write is ignored.
AfterChunkNoWait(r, writeSuccess) ==
  [r EXCEPT !.pending = @ \cup {Cont("immediate", "sendChunk", 0, 0)}]

\* Faulty variant of AfterChunk: on backpressure no listener is registered.
AfterChunkDropped(r, writeSuccess) ==
  IF writeSuccess THEN [r EXCEPT !.pending = @ \cup {Cont("immediate", "sendChunk", 0, 0)}]
  ELSE r

\* Faulty variant of AfterChunk: on backpressure the next call is set both
\* as a drain listener and as a setImmediate callback.
AfterChunkBoth(r, writeSuccess) ==
  IF writeSuccess THEN [r EXCEPT !.pending = @ \cup {Cont("immediate", "sendChunk", 0, 0)}]
  ELSE [OnceDrain(r, "sendChunk", 0) EXCEPT
          !.pending = @ \cup {Cont("immediate", "sendChunk", 0, 0)}]

\* What follows a write in sendChunk, lines 311-315.
AfterChunk(r, writeSuccess) ==
  IF writeSuccess THEN [r EXCEPT !.pending = @ \cup {Cont("immediate", "sendChunk", 0, 0)}]
  ELSE OnceDrain(r, "sendChunk", 0)

\* Faulty variant of ChunkFailed: the catch also sends the error response.
ChunkFailedReports(r) ==
  [JsonResponse(Cleanup(r, "failed"), 500) EXCEPT !.lastRun = "caught"]

\* Faulty variant of ChunkFailed: the catch ends the response.
ChunkFailedEnds(r) ==
  [Cleanup(ResEnd(r), "failed") EXCEPT !.lastRun = "caught"]

\* The catch of sendChunk, lines 316-319.
ChunkFailed(r) == [Cleanup(r, "failed") EXCEPT !.lastRun = "caught"]

\* The end of the buffer in sendChunk, lines 296-300.
ChunkDone(r) == Cleanup(ResEnd(r), "completed")

\* Faulty variant of Advance: the offset moves by chunkSize, whatever the
\* length of the chunk.
AdvanceByChunkSize(offset, chunk) == offset + chunkSize

\* Faulty variant of Advance: "offset = chunk.length" for "offset += ...".
AdvanceAssign(offset, chunk) == chunk.len

\* The offset after a chunk was written, line 309.
Advance(offset, chunk) == offset + chunk.len

\* The chunk sendChunk cuts at an offset, lines 302-305.
ChunkAt(testData, offset) ==
  Slice(testData, offset, Min(offset + chunkSize, testData.len))

\* sendChunk, lines 293-320; w is what res.write does: "ok", "full"
\* (it returns false) or "throw".
SendChunk(r, w) ==
  IF Stopped(r) THEN [r EXCEPT !.lastRun = "noop"]
  ELSE IF r.offset >= r.testData.len THEN ChunkDone(r)
  ELSE LET chunk == ChunkAt(r.testData, r.offset)
       IN  IF w = "throw" THEN ChunkFailed(r)
           ELSE AfterChunk(
                  [ResWrite(r, chunk, w = "ok") EXCEPT
                     !.offset = Advance(@, chunk)],
                  w = "ok")

\* The handler of GET /api/download/:size once the size is valid: lines
\* 270-328, and the catch of lines 329-334.
DownloadStream(r, c, id, size, pattern, w) ==
  LET g  == GenerateTestData(c, id, size, pattern)
      r1 == [r EXCEPT !.testData = g.data, !.pattern = pattern]
  IN  IF SetHeaderThrows(pattern)
      THEN Bundle(IF r1.headersSent THEN r1 ELSE JsonResponse(r1, 500),
                  g.cache, g.nextId)
      ELSE Bundle(SendChunk([r1 EXCEPT !.listening = TRUE], w),
                  g.cache, g.nextId)

\* The handler of GET /api/download/:size: lines 259-335.
DownloadHandler(r, c, id, rawSize, rawPattern, w) ==
  LET size == ParseFloat(rawSize)
      r1   == [r EXCEPT !.size = size]
  IN  IF InvalidSize(size) THEN Bundle(JsonResponse(r1, 400), c, id)
      ELSE DownloadStream(r1, c, id, size, PatternOf(rawPattern), w)

(***************************************************************************)
(* Warmup: lines 180-256.                                                  *)
(***************************************************************************)
phases ==
  <<[size |-> Num(1, 10), delay |-> 100], [size |-> Num(1, 2), delay |-> 150],
    [size |-> Num(1, 1), delay |-> 200], [size |-> Num(2, 1), delay |-> 250]>>

\* Faulty variant of AfterPhase: the test for the last phase is inverted.
AfterPhaseInverted(r, phase, success) ==
  IF r.currentPhase >= Len(phases)
  THEN IF success THEN SetTimeout(r, "sendPhase", phase.delay)
       ELSE OnceDrain(r, "timeout:sendPhase", phase.delay)
  ELSE SetTimeout(r, "endWarmup", phase.delay)

\* Faulty variant of AfterPhase: the result of the write is ignored.
AfterPhaseNoDrain(r, phase, success) ==
  IF r.currentPhase < Len(phases)
  THEN SetTimeout(r, "sendPhase", phase.delay)
  ELSE SetTimeout(r, "endWarmup", phase.delay)

\* Faulty variant of AfterPhase: sendPhase is scheduled after every write,
\* the last included, and ends the response itself.
AfterPhaseAgain(r, phase, success) ==
  IF success THEN SetTimeout(r, "sendPhase", phase.delay)
  ELSE OnceDrain(r, "timeout:sendPhase", phase.delay)

\* What follows a write in sendPhase, lines 223-237.
AfterPhase(r, phase, success) ==
  IF r.currentPhase < Len(phases)
  THEN IF success THEN SetTimeout(r, "sendPhase", phase.delay)
       ELSE OnceDrain(r, "timeout:sendPhase", phase.delay)
  ELSE SetTimeout(r, "endWarmup", phase.delay)

\* Faulty variant of StreamFailed: the catch logs the error and no more.
StreamFailedLogs(r) == [r EXCEPT !.lastRun = "caught"]

\* The catch of sendPhase and of sendData, lines 239-245 and 486-490.
StreamFailed(r) ==
  [Cleanup(IF CanWrite(r) THEN ResEnd(r) ELSE r, "failed") EXCEPT
     !.lastRun = "caught"]

\* The phase sendPhase sends, line 214 (currentPhase counts from 0).
PhaseAt(currentPhase) == phases[currentPhase + 1]

\* sendPhase, lines 205-246.
SendPhase(r, c, id, w) ==
  IF Stopped(r) THEN Bundle([r EXCEPT !.lastRun = "noop"], c, id)
  ELSE IF r.currentPhase >= Len(phases)
  THEN Bundle(Cleanup(ResEnd(r), "completed"), c, id)
  ELSE LET phase == PhaseAt(r.currentPhase)
           g     == GenerateTestData(c, id, phase.size, "random")
       IN  IF GenerateThrows(phase.size) THEN Bundle(StreamFailed(r), c, id)
           ELSE IF ~CanWrite(r)
           THEN Bundle([r EXCEPT !.lastRun = "noop"], g.cache, g.nextId)
           ELSE IF w = "throw" THEN Bundle(StreamFailed(r), g.cache, g.nextId)
           ELSE Bundle(
                  AfterPhase(
                    [ResWrite(r, Slice(g.data, 0, g.data.len), w = "ok") EXCEPT
                       !.currentPhase = @ + 1],
                    phase, w = "ok"),
                  g.cache, g.nextId)

\* Faulty variant of EndWarmup: the timeout ends the response unguarded.
EndWarmupAlways(r) == Cleanup(ResEnd(r), "completed")

\* The timeout set after the last phase, lines 231-236.
EndWarmup(r) ==
  IF ~r.isFinished /\ ~r.destroyed THEN Cleanup(ResEnd(r), "completed")
  ELSE [r EXCEPT !.lastRun = "noop"]

\* The handler of GET /api/warmup-advanced, lines 180-256.
WarmupHandler(r, c, id, w) ==
  SendPhase([r EXCEPT !.currentPhase = 0, !.listening = TRUE], c, id, w)

(***************************************************************************)
(* Adaptive download: lines 423-502.                                       *)
(***************************************************************************)
\* x || dflt for a number x: NaN and 0 are falsy.
OrDefault(x, dflt) == IF x.nan \/ x.n = 0 THEN dflt ELSE x

\* parseInt of a parameter: the whole part of a decimal, cut towards zero.
ParseInt(raw) ==
  IF ~raw.numeric THEN NaN
  ELSE IF raw.hundredths >= 0 THEN Num(raw.hundredths \div 100, 1)
  ELSE Num(-((-raw.hundredths) \div 100), 1)

\* Lines 424-428.
InitialSizeOf(raw) == MathMax(OrDefault(ParseFloat(raw), Num(1, 1)), Num(1, 10))

MaxSizeOf(raw) == MathMin(OrDefault(ParseFloat(raw), Num(5, 1)), Num(10, 1))

\* Faulty variant of DurationOf: the ceiling is left out.
DurationOfUnclamped(raw) == OrDefault(ParseInt(raw), Num(5, 1))

DurationOf(raw) == MathMin(OrDefault(ParseInt(raw), Num(5, 1)), Num(10, 1))

ThrottleOf(raw) == MathMax(OrDefault(ParseFloat(raw), Num(1, 1)), Num(1, 10))

\* elapsed, in seconds, line 455.
Elapsed(r) == Num(r.clock, 1000)

\* Faulty variant of DurationReached: ">" for ">=".
DurationPassed(elapsed, duration) == Gt(elapsed, duration)

\* Faulty variant of DurationReached: a duration that is not positive is
\* never reached.
DurationReachedPositive(elapsed, duration) ==
  Gt(duration, Zero) /\ Ge(elapsed, duration)

\* Has the duration been reached, line 457.
DurationReached(elapsed, duration) == Ge(elapsed, duration)

\* Faulty variant of TargetSize: the ramp takes the whole duration.
TargetSizeSlow(initialSize, maxSize, elapsed, duration) ==
  Plus(initialSize,
       Times(Minus(maxSize, initialSize),
             MathMin(Over(elapsed, duration), Num(1, 1))))

\* targetSize, lines 464-466.
TargetSize(initialSize, maxSize, elapsed, duration) ==
  LET progress == Over(elapsed, duration)
  IN  Plus(initialSize,
           Times(Minus(maxSize, initialSize),
                 MathMin(Times(progress, Num(2, 1)), Num(1, 1))))

\* Faulty variant of AdaptiveChunkSize: the floor of 0.05 MB is left out.
AdaptiveChunkSizeNoFloor(currentSize, throttle) ==
  Times(Times(currentSize, Num(3, 100)), throttle)

\* chunkSize of sendData, in MB, line 471.
AdaptiveChunkSize(currentSize, throttle) ==
  MathMax(Times(Times(currentSize, Num(3, 100)), throttle), Num(5, 100))

\* Faulty variant of NextDelay: the elapsed time is taken in milliseconds.
NextDelayMillis(elapsed, throttle) ==
  MathMin(Num(300, 1),
          Plus(Num(100, 1),
               Over(Times(Times(elapsed, Num(1000, 1)), Num(10, 1)),
                    throttle)))

\* nextDelay, in ms, line 478.
NextDelay(elapsed, throttle) ==
  MathMin(Num(300, 1),
          Plus(Num(100, 1), Over(Times(elapsed, Num(10, 1)), throttle)))

\* Faulty variant of AfterData: the timeout is set without waiting for the
\* drain.
AfterDataNoWait(r, writeSuccess, nextDelay) ==
  SetTimeout(r, "sendData", Trunc(nextDelay))

\* Faulty variant of AfterData: on backpressure no listener is registered.
AfterDataDropped(r, writeSuccess, nextDelay) ==
  IF writeSuccess THEN SetTimeout(r, "sendData", Trunc(nextDelay)) ELSE r

\* What follows a write in sendData, lines 480-484.
AfterData(r, writeSuccess, nextDelay) ==
  IF writeSuccess THEN SetTimeout(r, "sendData", Trunc(nextDelay))
  ELSE OnceDrain(r, "timeout:sendData", Trunc(nextDelay))

\* The end of the duration in sendData, lines 457-461.
DataDone(r) == Cleanup(IF CanWrite(r) THEN ResEnd(r) ELSE r, "completed")

\* sendData, lines 451-491.
SendData(r, c, id, w) ==
  IF Stopped(r) THEN Bundle([r EXCEPT !.lastRun = "noop"], c, id)
  ELSE IF DurationReached(Elapsed(r), r.duration) THEN Bundle(DataDone(r), c, id)
  ELSE LET elapsed == Elapsed(r)
           r1 == [r EXCEPT !.currentSize =
                    MathMin(TargetSize(r.initialSize, r.maxSize, elapsed,
                                       r.duration),
                            r.maxSize)]
           size == AdaptiveChunkSize(r1.currentSize, r.throttle)
           g    == GenerateTestData(c, id, size, r.pattern)
       IN  IF GenerateThrows(size) THEN Bundle(StreamFailed(r1), c, id)
           ELSE IF ~CanWrite(r1)
           THEN Bundle([r1 EXCEPT !.lastRun = "noop"], g.cache, g.nextId)
           ELSE IF w = "throw" THEN Bundle(StreamFailed(r1), g.cache, g.nextId)
           ELSE Bundle(
                  AfterData(ResWrite(r1, Slice(g.data, 0, g.data.len), w = "ok"),
                            w = "ok", NextDelay(elapsed, r.throttle)),
                  g.cache, g.nextId)

\* The handler of GET /api/download-adaptive, lines 423-502.  An exception
\* of setHeader reaches the error middleware of lines 642-651.
AdaptiveHandler(r, c, id, raw, w) ==
  LET pattern == PatternOf(raw.pattern)
      r1 == [r EXCEPT !.initialSize = InitialSizeOf(raw.initial),
                      !.maxSize = MaxSizeOf(raw.max),
                      !.duration = DurationOf(raw.duration),
                      !.throttle = ThrottleOf(raw.throttle),
                      !.pattern = pattern,
                      !.currentSize = InitialSizeOf(raw.initial)]
  IN  IF SetHeaderThrows(pattern) THEN Bundle(JsonResponse(r1, 500), c, id)
      ELSE SendData([r1 EXCEPT !.listening = TRUE], c, id, w)

(***************************************************************************)
(* Latency probe: lines 132-177.                                           *)
(***************************************************************************)
\* The latency probe reads the clock to a fraction of a millisecond: its
\* times are whole numbers of clock units, Resolution units to a millisecond.
Resolution == 10000

\* A time of the fine clock, in milliseconds.
Millis(units) == Num(units, Resolution)

\* x.toFixed(3): the decimal text with three places nearest to x (the larger
\* one when two are as near), given as its number of thousandths.
ToFixed3(x) ==
  LET whole == x.n \div x.d
      rest  == x.n % x.d
  IN  whole * 1000 + (2 * rest * 1000 + x.d) \div (2 * x.d)

\* count and interval, lines 133-134.
LatencyCount(raw) == MathMin(OrDefault(ParseInt(raw), Num(5, 1)), Num(10, 1))

LatencyInterval(raw) ==
  MathMax(OrDefault(ParseInt(raw), Num(50, 1)), Num(100, 1))

IdleProbe ==
  [state |-> "idle",         \* idle, running or done (res.json was called)
   requested |-> [numeric |-> FALSE, hundredths |-> 0],
   count |-> Zero, interval |-> Zero,
   measurements |-> <<>>, completed |-> 0,
   timer |-> [index |-> 0, at |-> 0],     \* the pending setTimeout
   responses |-> 0,                       \* calls of res.json
   disconnected |-> FALSE,                \* the client has gone
   statistics |-> [count |-> 0, average |-> 0, minimum |-> 0, maximum |-> 0,
                   jitter |-> 0]]

\* latencies.reduce((a, b) => a + b, 0), line 155.
RECURSIVE SumOf(_)
SumOf(latencies) ==
  IF latencies = <<>> THEN 0
  ELSE SumOf(SubSeq(latencies, 1, Len(latencies) - 1))
         + latencies[Len(latencies)]

\* Math.min(...latencies) and Math.max(...latencies), lines 156-157.
MinOf(latencies) ==
  CHOOSE x \in {latencies[k] : k \in 1..Len(latencies)} :
    \A k \in 1..Len(latencies) : x <= latencies[k]

MaxOf(latencies) ==
  CHOOSE x \in {latencies[k] : k \in 1..Len(latencies)} :
    \A k \in 1..Len(latencies) : x >= latencies[k]

\* The statistics of the response, lines 154-168; the four values are the
\* texts toFixed(3) gives.
Statistics(measurements, completed) ==
  LET latencies == [k \in 1..Len(measurements) |-> measurements[k].latency]
      average   == Over(Millis(SumOf(latencies)), Num(Len(latencies), 1))
      min       == MinOf(latencies)
      max       == MaxOf(latencies)
      jitter    == max - min
  IN  [count |-> completed,
       average |-> ToFixed3(average),
       minimum |-> ToFixed3(Millis(min)),
       maximum |-> ToFixed3(Millis(max)),
       jitter |-> ToFixed3(Millis(jitter))]

\* Faulty variant of ProbeComplete: "===" for ">=".
ProbeCompleteExact(completed, count) == Num(completed, 1) = count

\* Faulty variant of ProbeComplete: ">" for ">=".
ProbeCompleteAfter(completed, count) == Gt(Num(completed, 1), count)

\* The test of line 152.
ProbeComplete(completed, count) == Ge(Num(completed, 1), count)

\* Faulty variant of PerformMeasurement: the latency is the time since the
\* measurement before.
PerformMeasurementDelta(p, index, measurementTime) ==
  LET last == IF p.measurements = <<>> THEN 0
              ELSE p.measurements[Len(p.measurements)].serverTime
      measurements ==
        Append(p.measurements,
               [index |-> index, clientStartTime |-> 0,
                serverTime |-> measurementTime,
                latency |-> measurementTime - last])
      completed == p.completed + 1
      p1 == [p EXCEPT !.measurements = measurements, !.completed = completed]
  IN  IF ProbeComplete(completed, p.count)
      THEN [p1 EXCEPT !.state = "done", !.responses = @ + 1,
                      !.statistics = Statistics(measurements, completed)]
      ELSE [p1 EXCEPT !.timer =
              [index |-> index + 1,
               at |-> measurementTime + Trunc(p.interval) * Resolution]]

\* performMeasurement(index) when the clock reads measurementTime (counted
\* from startTime), lines 140-174.
PerformMeasurement(p, index, measurementTime) ==
  LET measurements ==
        Append(p.measurements,
               [index |-> index, clientStartTime |-> 0,
                serverTime |-> measurementTime, latency |-> measurementTime])
      completed == p.completed + 1
      p1 == [p EXCEPT !.measurements = measurements, !.completed = completed]
  IN  IF ProbeComplete(completed, p.count)
      THEN [p1 EXCEPT !.state = "done", !.responses = @ + 1,
                      !.statistics = Statistics(measurements, completed)]
      ELSE [p1 EXCEPT !.timer =
              [index |-> index + 1,
               at |-> measurementTime + Trunc(p.interval) * Resolution]]

\* The handler of GET /api/latency-advanced, lines 132-177; the first
\* measurement reads the clock at time first after startTime.
LatencyHandler(rawCount, rawInterval, first) ==
  PerformMeasurement(
    [IdleProbe EXCEPT !.state = "running", !.requested = rawCount,
                      !.count = LatencyCount(rawCount),
                      !.interval = LatencyInterval(rawInterval)],
    0, first)

(***************************************************************************)
(* Upload: lines 506-577 and 580-640.                                      *)
(***************************************************************************)
NoUpload ==
  [route |-> "none", body |-> [present |-> FALSE, size |-> 0],
   responses |-> 0, error |-> "", status |-> 0, size |-> 0,
   clientStartTime |-> Zero, receiveStartTime |-> Zero,
   receiveEndTime |-> Zero, processingTime |-> Zero, totalTime |-> Zero,
   speedMbps |-> 0]

\* Faulty variant of SpeedMbps: a megabit taken as 1000 * 1000 bits.
SpeedMbpsDecimal(dataSize, totalTime) ==
  IF Gt(totalTime, Zero)
  THEN Over(Num(dataSize * 8, 1),
            Times(Times(Over(totalTime, Num(1000, 1)), Num(1000, 1)),
                  Num(1000, 1)))
  ELSE Zero

\* Faulty variant of SpeedMbps: the test is "totalTime !== 0".
SpeedMbpsNonZero(dataSize, totalTime) ==
  LET time  == IF Lt(totalTime, Zero) THEN Minus(Zero, totalTime)
               ELSE totalTime
      speed == Over(Num(dataSize * 8, 1),
                    Times(Times(Over(time, Num(1000, 1)), Num(1024, 1)),
                          Num(1024, 1)))
  IN  IF totalTime.n = 0 THEN Zero
      ELSE IF Lt(totalTime, Zero) THEN Minus(Zero, speed)
      ELSE speed

\* speedMbps, lines 532-533 and 606-609.
SpeedMbps(dataSize, totalTime) ==
  IF Gt(totalTime, Zero)
  THEN Over(Num(dataSize * 8, 1),
            Times(Times(Over(totalTime, Num(1000, 1)), Num(1024, 1)),
                  Num(1024, 1)))
  ELSE Zero

\* Faulty variant of HasData: the branch for a request without data is
\* never taken.
HasDataAlways(body) == TRUE

\* Did the request bring data, req.file or a raw body (the tests of lines
\* 517-525 and 590-596)?
HasData(body) == body.present

\* The response to a request without data, lines 524 and 596.
NoDataReceived(route, body) ==
  [NoUpload EXCEPT !.route = route, !.body = body, !.responses = 1,
                   !.status = 400, !.error = "No data received"]

\* The handler of POST /api/upload, lines 506-577: body is the data
\* received (req.file or a raw body), rawStart the x-upload-start header,
\* and the clock reads receiveStartTime at line 507, receiveEndTime at 527.
UploadHandler(body, rawStart, receiveStartTime, receiveEndTime) ==
  LET clientStartTime == OrDefault(ParseFloat(rawStart), receiveStartTime)
      processingTime  == Minus(receiveEndTime, receiveStartTime)
      totalTime       == Minus(receiveEndTime, clientStartTime)
      speedMbps       == SpeedMbps(body.size, totalTime)
  IN  IF ~HasData(body) THEN NoDataReceived("upload", body)
      ELSE [route |-> "upload", body |-> body, responses |-> 1,
            error |-> "", status |-> 200, size |-> body.size,
            clientStartTime |-> clientStartTime,
            receiveStartTime |-> receiveStartTime,
            receiveEndTime |-> receiveEndTime,
            processingTime |-> processingTime, totalTime |-> totalTime,
            speedMbps |-> ToFixed3(speedMbps)]

\* The handler of POST /api/upload-multi, lines 580-640: the clock reads
\* receiveTime at line 581 and processTime at line 600; the fields
\* receiveTime, processTime, processingDuration and totalDuration of its
\* response are held in the fields of the same meaning of /api/upload.
UploadMultiHandler(body, rawStart, receiveTime, processTime) ==
  LET clientStartTime    == OrDefault(ParseFloat(rawStart), receiveTime)
      processingDuration == Minus(processTime, receiveTime)
      totalDuration      == Minus(processTime, clientStartTime)
      speedMbps          == SpeedMbps(body.size, totalDuration)
  IN  IF ~HasData(body) THEN NoDataReceived("upload-multi", body)
      ELSE [route |-> "upload-multi", body |-> body, responses |-> 1,
            error |-> "", status |-> 200, size |-> body.size,
            clientStartTime |-> clientStartTime,
            receiveStartTime |-> receiveTime, receiveEndTime |-> processTime,
            processingTime |-> processingDuration,
            totalTime |-> totalDuration,
            speedMbps |-> ToFixed3(speedMbps)]

(***************************************************************************)
(* The inputs of the model.                                                *)
(***************************************************************************)
Hundredths(h) == [numeric |-> TRUE, hundredths |-> h]

NotANumber == [numeric |-> FALSE, hundredths |-> 0]

\* Requests for a download: the size parameter and the pattern parameter.
DownloadInputs ==
  {<<Hundredths(10), "compressible">>, <<Hundredths(10), "incompressible">>,
   <<Hundredths(50), "">>, <<Hundredths(13), "zeros">>,
   <<Hundredths(10), "x\ny">>,
   <<Hundredths(9), "">>, <<Hundredths(1001), "incompressible">>,
   <<Hundredths(-100), "">>, <<Hundredths(2000), "compressible">>,
   <<NotANumber, "">>}

\* Requests for a download at the ends of the valid range.
BoundaryInputs ==
  {<<Hundredths(1000), "random">>, <<Hundredths(1001), "random">>,
   <<Hundredths(10), "random">>, <<Hundredths(9), "random">>,
   <<Hundredths(-100), "random">>, <<Hundredths(2000), "random">>,
   <<NotANumber, "random">>}

\* Requests for an adaptive download.
AdaptiveInput(initial, max, duration, throttle, pattern) ==
  [initial |-> initial, max |-> max, duration |-> duration,
   throttle |-> throttle, pattern |-> pattern]

AdaptiveInputs ==
  {AdaptiveInput(NotANumber, NotANumber, Hundredths(100), Hundredths(10), ""),
   AdaptiveInput(Hundredths(500), Hundredths(500), Hundredths(-200),
                 NotANumber, "compressible"),
   AdaptiveInput(NotANumber, NotANumber, Hundredths(-100), NotANumber, ""),
   AdaptiveInput(NotANumber, NotANumber, NotANumber, Hundredths(10000000),
                 ""),
   AdaptiveInput(NotANumber, NotANumber, NotANumber, NotANumber, "x\ny")}

\* What a call of res.write does: it returns true, it returns false, it throws.
WriteResults == {"ok", "full", "throw"}

\* Requests for an adaptive download over a grid of parameter values:
\* absent, zero, negative, fractional, within range and beyond it.
ParamInputs ==
  {AdaptiveInput(initial, max, duration, throttle, "compressible") :
     initial \in {NotANumber, Hundredths(0), Hundredths(5), Hundredths(2000)},
     max \in {NotANumber, Hundredths(0), Hundredths(-500), Hundredths(2000)},
     duration \in {NotANumber, Hundredths(0), Hundredths(-200), Hundredths(50),
                   Hundredths(-50), Hundredths(370), Hundredths(1000),
                   Hundredths(1100)},
     throttle \in {NotANumber, Hundredths(0), Hundredths(5), Hundredths(-100)}}

\* Requests for a latency probe: the count and the interval parameter.
LatencyInputs ==
  {<<NotANumber, NotANumber>>, <<Hundredths(100), Hundredths(25000)>>,
   <<Hundredths(300), NotANumber>>, <<Hundredths(1270), NotANumber>>,
   <<Hundredths(0), Hundredths(3000)>>, <<Hundredths(-300), NotANumber>>,
   <<Hundredths(200), Hundredths(25000)>>}

\* The data of an upload: none, or a buffer of so many bytes.
UploadBodies ==
  {[present |-> FALSE, size |-> 0]}
    \cup {[present |-> TRUE, size |-> n] :
           n \in {0, 123456, 1024 * 1024, 5 * 1024 * 1024, 10 * 1024 * 1024}}

\* The clock of the server when an upload handler starts, in ms, and the
\* time it may take up to its second reading of the clock.
UploadArrival == Num(1000, 1)

UploadDelays == {Zero, Num(1, 20)}

\* The x-upload-start header: absent, "0", or a time of the client's clock
\* 500, 400, 250 or 100 ms before the arrival, at the arrival, or after it.
UploadStarts ==
  {NotANumber, Hundredths(0), Hundredths(50000), Hundredths(60000),
   Hundredths(75000), Hundredths(90000), Hundredths(100000),
   Hundredths(100500)}

\* By how much a reading of the fine clock may be late.
Skews == {k * SkewStep : k \in 0..MaxSkew}

(***************************************************************************)
(* The state machine.                                                      *)
(***************************************************************************)
Init ==
  /\ testDataCache = Startup.cache
  /\ nextId = Startup.nextId
  /\ sess = [s \in Sessions |-> IdleSession]
  /\ requests = 0
  /\ probe = IdleProbe
  /\ upload = NoUpload

\* A connection can take a request when it is idle or its last response is over.
Free(r) == r.kind = "idle" \/ r.status # 0 \/ r.isFinished

\* Faulty variant of Becomes: the offset is one variable for all sessions.
BecomesShared(s, b) ==
  /\ sess' = [t \in Sessions |->
                IF t = s THEN b.r ELSE [sess[t] EXCEPT !.offset = b.r.offset]]
  /\ testDataCache' = b.cache
  /\ nextId' = b.nextId
  /\ UNCHANGED <<probe, upload>>

\* The state after a step of session s that leaves bundle b.
Becomes(s, b) ==
  /\ sess' = [sess EXCEPT ![s] = b.r]
  /\ testDataCache' = b.cache
  /\ nextId' = b.nextId
  /\ UNCHANGED <<probe, upload>>

\* A new request on connection s.
Accept(s) ==
  /\ Free(sess[s])
  /\ requests < MaxRequests
  /\ requests' = requests + 1

NewSession(kind) ==
  [IdleSession EXCEPT !.kind = kind, !.req = requests + 1, !.via = "handler"]

\* GET /api/download/:size
Download(s, in, w) ==
  /\ Accept(s)
  /\ Becomes(s, DownloadHandler(NewSession("download"), testDataCache, nextId,
                                in[1], in[2], w))

\* GET /api/warmup-advanced
Warmup(s, w) ==
  /\ Accept(s)
  /\ Becomes(s, WarmupHandler(NewSession("warmup"), testDataCache, nextId, w))

\* GET /api/download-adaptive
Adaptive(s, in, w) ==
  /\ Accept(s)
  /\ Becomes(s, AdaptiveHandler(NewSession("adaptive"), testDataCache, nextId,
                                in, w))

\* The call a continuation makes.
Call(r, c, id, cont, w) ==
  CASE cont.call = "sendChunk" -> Bundle(SendChunk(r, w), c, id)
    [] cont.call = "sendPhase" -> SendPhase(r, c, id, w)
    [] cont.call = "sendData" -> SendData(r, c, id, w)
    [] cont.call = "endWarmup" -> Bundle(EndWarmup(r), c, id)
    [] cont.call = "timeout:sendPhase" ->
         Bundle([SetTimeout(r, "sendPhase", cont.delay) EXCEPT
                   !.lastRun = "timer"], c, id)
    [] cont.call = "timeout:sendData" ->
         Bundle([SetTimeout(r, "sendData", cont.delay) EXCEPT
                   !.lastRun = "timer"], c, id)

\* A continuation of session s is taken off and run.
Run(s, cont, via, w) ==
  Becomes(s, Call([sess[s] EXCEPT !.pending = @ \ {cont}, !.via = via],
                  testDataCache, nextId, cont, w))

\* A setImmediate callback runs.
RunImmediate(s, w) ==
  /\ \E cont \in sess[s].pending :
       cont.on = "immediate" /\ Run(s, cont, "immediate", w)
  /\ UNCHANGED requests

\* A timeout that is due fires.
RunTimeout(s, w) ==
  /\ \E cont \in sess[s].pending :
       /\ cont.on = "timeout"
       /\ sess[s].clock >= cont.at
       /\ Run(s, cont, "timeout", w)
  /\ UNCHANGED requests

\* The response emits "drain": its buffer is empty again, and the listener
\* of once("drain"), if any, is removed and called.
Drain(s, w) ==
  /\ sess[s].needDrain
  /\ ~sess[s].isFinished \/ \E cont \in sess[s].pending : cont.on = "drain"
  /\ LET r == [sess[s] EXCEPT !.needDrain = FALSE, !.via = "drain",
                              !.lastRun = "none"]
         listeners == {cont \in r.pending : cont.on = "drain"}
     IN  IF listeners = {} THEN Becomes(s, Bundle(r, testDataCache, nextId))
         ELSE \E cont \in listeners :
                Becomes(s, Call([r EXCEPT !.pending = @ \ listeners],
                                testDataCache, nextId, cont, w))
  /\ UNCHANGED requests

\* Time passes for the sessions that wait for a timeout.  A session that
\* reads the clock (the adaptive download) may find its timeout late, and
\* time passes while it or a warmup waits for a drain; the other sessions
\* set timeouts only, so a late timeout shifts their schedule and changes
\* nothing else.
TimeRuns(r) ==
  /\ r.clock < MaxSteps * ClockStep
  /\ \E cont \in r.pending :
       \/ cont.on = "timeout" /\ r.clock < cont.at
       \/ /\ r.kind = "adaptive" /\ ~r.isFinished
          /\ cont.on \in {"timeout", "drain"}
          /\ r.clock < cont.at + MaxLate * ClockStep
       \/ /\ r.kind = "warmup" /\ ~r.isFinished
          /\ cont.on = "drain"
          /\ r.clock < cont.at + MaxLate * ClockStep

Tick ==
  /\ \E s \in Sessions : TimeRuns(sess[s])
  /\ sess' = [s \in Sessions |->
                IF TimeRuns(sess[s])
                THEN [sess[s] EXCEPT !.clock = @ + ClockStep]
                ELSE sess[s]]
  /\ UNCHANGED <<testDataCache, nextId, requests, probe, upload>>

\* The connection is lost: the response is destroyed.
Destroy(s) ==
  /\ sess[s].listening
  /\ ~sess[s].destroyed
  /\ ~sess[s].isFinished
  /\ sess' = [sess EXCEPT ![s].destroyed = TRUE]
  /\ UNCHANGED <<testDataCache, nextId, requests, probe, upload>>

\* Faulty variant of Cancel: the listener ends the response before cleanup.
CancelEnds(s) ==
  /\ sess[s].listening
  /\ sess[s].emitted < Min(MaxEvents, Cardinality(CancelEvents))
  /\ sess' = [sess EXCEPT ![s] =
       [Cleanup(ResEnd(sess[s]), "cancelled") EXCEPT
          !.emitted = @ + 1, !.cancelled = TRUE, !.via = "event",
          !.lastRun = "event"]]
  /\ UNCHANGED <<testDataCache, nextId, requests, probe, upload>>

\* The request or the response emits one of the events the handler listens
\* to (lines 249-252, 323-326, 493-499): cleanup runs.
Cancel(s) ==
  /\ sess[s].listening
  /\ sess[s].emitted < Min(MaxEvents, Cardinality(CancelEvents))
  /\ sess' = [sess EXCEPT ![s] =
       [Cleanup(sess[s], "cancelled") EXCEPT
          !.emitted = @ + 1, !.cancelled = TRUE, !.via = "event",
          !.lastRun = "event"]]
  /\ UNCHANGED <<testDataCache, nextId, requests, probe, upload>>

\* The steps of a session that follow its request.
Continue(s) ==
  \/ \E w \in WriteResults : RunImmediate(s, w)
  \/ \E w \in WriteResults : RunTimeout(s, w)
  \/ \E w \in WriteResults : Drain(s, w)
  \/ Destroy(s)
  \/ Cancel(s)

\* The server with one client, whose requests follow one another.
Next ==
  \/ \E s \in Single, in \in DownloadInputs, w \in WriteResults :
       Download(s, in, w)
  \/ \E s \in Single, w \in WriteResults : Warmup(s, w)
  \/ \E s \in Single, in \in AdaptiveInputs, w \in WriteResults :
       Adaptive(s, in, w)
  \/ \E s \in Single : Continue(s)
  \/ Tick

Spec == Init /\ [][Next]_vars

\* What res.write does when it does not throw.
Accepted == {"ok", "full"}

\* Requests for a download made while another session runs.
PairInputs ==
  {<<Hundredths(10), "compressible">>, <<Hundredths(13), "incompressible">>}

\* The server with two clients, one request each, whose sessions
\* interleave: two downloads, or a download beside a warmup (on the first
\* connection, the two being alike).
NextPair ==
  \/ \E s \in Sessions, in \in PairInputs, w \in Accepted :
       sess[s].kind = "idle" /\ Download(s, in, w)
  \/ \E s \in Single, w \in Accepted :
       sess[s].kind = "idle" /\ Warmup(s, w)
  \/ \E s \in Sessions, w \in Accepted : RunImmediate(s, w)
  \/ \E s \in Sessions, w \in Accepted : RunTimeout(s, w)
  \/ \E s \in Sessions, w \in Accepted : Drain(s, w)
  \/ \E s \in Sessions : Cancel(s)
  \/ Tick

SpecPair == Init /\ [][NextPair]_vars

\* The server under downloads that nothing cancels and whose writes never
\* throw; the event loop runs every setImmediate callback, and a response
\* that reported backpressure emits "drain".
NextLive ==
  \/ \E s \in Single, in \in DownloadInputs, w \in Accepted : Download(s, in, w)
  \/ \E s \in Single, w \in Accepted : RunImmediate(s, w)
  \/ \E s \in Single, w \in Accepted : Drain(s, w)

SpecLive ==
  /\ Init /\ [][NextLive]_vars
  /\ \A s \in Single :
       /\ WF_vars(\E w \in Accepted : RunImmediate(s, w))
       /\ WF_vars(\E w \in Accepted : Drain(s, w))

\* The server under requests for adaptive downloads, up to the return of
\* the handler.
NextParams ==
  \E s \in Single, in \in ParamInputs, w \in WriteResults : Adaptive(s, in, w)

SpecParams == Init /\ [][NextParams]_vars

\* GET /api/latency-advanced
Latency(in, first) ==
  /\ probe.state = "idle"
  /\ probe' = LatencyHandler(in[1], in[2], first)
  /\ UNCHANGED <<testDataCache, nextId, sess, requests, upload>>

\* The timeout of line 172 fires, late units after it is due.
LatencyTimeout(late) ==
  /\ probe.state = "running"
  /\ probe' = PerformMeasurement(probe, probe.timer.index,
                                 probe.timer.at + late)
  /\ UNCHANGED <<testDataCache, nextId, sess, requests, upload>>

\* The client of the probe goes away.  The handler listens to no event of
\* the request or the response (lines 132-177), so nothing else changes.
LatencyDisconnect ==
  /\ probe.state = "running"
  /\ ~probe.disconnected
  /\ probe' = [probe EXCEPT !.disconnected = TRUE]
  /\ UNCHANGED <<testDataCache, nextId, sess, requests, upload>>

\* POST /api/upload
Upload(body, rawStart, delay) ==
  /\ upload' = UploadHandler(body, rawStart, UploadArrival,
                             Plus(UploadArrival, delay))
  /\ UNCHANGED <<testDataCache, nextId, sess, requests, probe>>

\* POST /api/upload-multi
UploadMulti(body, rawStart, delay) ==
  /\ upload' = UploadMultiHandler(body, rawStart, UploadArrival,
                                  Plus(UploadArrival, delay))
  /\ UNCHANGED <<testDataCache, nextId, sess, requests, probe>>

\* The server under uploads.
NextUpload ==
  \/ \E body \in UploadBodies, rawStart \in UploadStarts,
        delay \in UploadDelays : Upload(body, rawStart, delay)
  \/ \E body \in UploadBodies, rawStart \in UploadStarts,
        delay \in UploadDelays : UploadMulti(body, rawStart, delay)

SpecUpload == Init /\ [][NextUpload]_vars

\* The server under one latency probe.
NextLatency ==
  \/ \E in \in LatencyInputs, first \in Skews : Latency(in, first)
  \/ \E late \in Skews : LatencyTimeout(late)
  \/ LatencyDisconnect

SpecLatency == Init /\ [][NextLatency]_vars

\* The server under requests for downloads at the ends of the valid range.
NextBoundary ==
  \/ \E s \in Single, in \in BoundaryInputs, w \in WriteResults :
       Download(s, in, w)
  \/ \E s \in Single, w \in WriteResults : RunImmediate(s, w)
  \/ \E s \in Single, w \in WriteResults : Drain(s, w)
  \/ \E s \in Single : Destroy(s)
  \/ \E s \in Single : Cancel(s)

SpecBoundary == Init /\ [][NextBoundary]_vars

\* Requests for an adaptive download of one second: the default sizes at
\* the default throttle, the default sizes at the lowest throttle, and an
\* initial size above the largest size; and a request with a negative
\* duration.
RampInputs ==
  {AdaptiveInput(NotANumber, NotANumber, Hundredths(100), NotANumber, ""),
   AdaptiveInput(NotANumber, NotANumber, Hundredths(-200), NotANumber, ""),
   AdaptiveInput(NotANumber, NotANumber, Hundredths(100), Hundredths(10),
                 "compressible"),
   AdaptiveInput(Hundredths(2000), NotANumber, Hundredths(100), NotANumber,
                 "compressible")}

\* The server under one adaptive download.
NextAdaptive ==
  \/ \E s \in Single, in \in RampInputs, w \in WriteResults :
       sess[s].kind = "idle" /\ Adaptive(s, in, w)
  \/ \E s \in Single, w \in WriteResults : RunTimeout(s, w)
  \/ \E s \in Single, w \in WriteResults : Drain(s, w)
  \/ \E s \in Single : Cancel(s)
  \/ Tick

SpecAdaptive == Init /\ [][NextAdaptive]_vars

\* Requests for a download of one size with a pattern the generator does
\* not know, with the pattern random, and with no pattern.
CacheInputs ==
  {<<Hundredths(13), "zeros">>, <<Hundredths(13), "random">>,
   <<Hundredths(13), "">>}

\* The server under two downloads, one on each connection.
NextCache ==
  \/ \E s \in Sessions, in \in CacheInputs, w \in Accepted :
       sess[s].kind = "idle" /\ Download(s, in, w)
  \/ \E s \in Sessions, w \in Accepted : RunImmediate(s, w)
  \/ \E s \in Sessions, w \in Accepted : Drain(s, w)

SpecCache == Init /\ [][NextCache]_vars

\* A timeout of session s is due: RunTimeout is enabled.
TimeoutDue(s) ==
  \E cont \in sess[s].pending :
    cont.on = "timeout" /\ sess[s].clock >= cont.at

\* The server under one adaptive download when the clock advances, a
\* response that reported backpressure emits "drain", and every timeout
\* that is due fires.  The last is the weak fairness of RunTimeout, with
\* its enabling condition written as the state predicate TimeoutDue.
SpecAdaptiveLive ==
  /\ Init /\ [][NextAdaptive]_vars
  /\ WF_vars(Tick)
  /\ \A s \in Single :
       /\ WF_vars(\E w \in WriteResults : Drain(s, w))
       /\ \/ []<>(~TimeoutDue(s))
          \/ []<><<\E w \in WriteResults : RunTimeout(s, w)>>_vars

(***************************************************************************)
(* Properties.                                                             *)
(***************************************************************************)
\* Session s serves the same request before and after the step.
SameRequest(s) == sess'[s].req = sess[s].req

\* The chunks ws are slices of buffer id that follow one another from 0.
ConsecutiveSlices(ws, id) ==
  \A k \in 1..Len(ws) :
    /\ ws[k].buf = id
    /\ ws[k].len > 0
    /\ ws[k].from = IF k = 1 THEN 0 ELSE ws[k - 1].from + ws[k - 1].len

\* The number of bytes of consecutive slices ws.
Written(ws) == IF ws = <<>> THEN 0 ELSE ws[Len(ws)].from + ws[Len(ws)].len

\* C1: in a fixed-size download the chunks passed to res.write are the
\* consecutive slices of the buffer, the first at offset 0, each next one
\* where the previous one ended, and when res.end() has been called their
\* lengths add up to the length of the buffer.
C1_ConsecutiveChunks ==
  \A s \in Sessions :
    sess[s].kind = "download" =>
      /\ ConsecutiveSlices(sess[s].writes, sess[s].testData.id)
      /\ sess[s].endCalls > 0 => Written(sess[s].writes) = sess[s].testData.len

C1_Witness ==
  \E s \in Sessions :
    /\ sess[s].kind = "download" /\ sess[s].outcome = "completed"
    /\ sess[s].endCalls = 1 /\ Len(sess[s].writes) = 3
    /\ ~sess[s].cancelled

\* C2: in a fixed-size download, while the response needs a drain no write
\* is made except by the drain event itself, that write starts at the offset
\* the session had reached, and a write that reports backpressure leaves
\* only a drain listener pending.
C2_BackpressureResume ==
  [][\A s \in Sessions :
       sess'[s].kind = "download" =>
         /\ sess'[s].needDrain =>
              \A cont \in sess'[s].pending : cont.on = "drain"
         /\ (SameRequest(s) /\ sess[s].needDrain
               /\ Len(sess'[s].writes) > Len(sess[s].writes)) =>
              /\ sess'[s].via = "drain"
              /\ Len(sess'[s].writes) = Len(sess[s].writes) + 1
              /\ sess'[s].writes[Len(sess'[s].writes)].from = sess[s].offset
              /\ sess[s].offset = Written(sess[s].writes)]_vars

C2_Witness ==
  \E s \in Sessions :
    /\ sess[s].kind = "download" /\ sess[s].via = "drain"
    /\ sess[s].lastRun = "write" /\ Len(sess[s].writes) >= 2

\* C3: once a cancellation event has been delivered to a session, no step
\* of that session writes, and whatever runs afterwards (a setImmediate, a
\* timeout, a drain listener, another event) returns without a write, an
\* end or an exception.
C3_NoWriteAfterCancel ==
  [][\A s \in Sessions :
       (sess[s].cancelled /\ SameRequest(s)) =>
         /\ sess'[s].writes = sess[s].writes
         /\ sess'[s].lastRun \in {"event", "noop", "timer", "none"}]_vars

C3_Witness ==
  \E s \in Sessions :
    /\ sess[s].cancelled /\ sess[s].lastRun = "noop"
    /\ sess[s].via \in {"immediate", "timeout", "drain"}
    /\ sess[s].writes # <<>>

\* C4, as stated: one termination path, res.end() at most once and cleanup
\* executed at most once.
C4_Original ==
  \A s \in Sessions :
    /\ sess[s].endCalls <= 1
    /\ sess[s].cleanupCalls <= 1
    /\ sess[s].isFinished <=> sess[s].outcome # "active"

\* C4, amended: one path decides how a session terminates and nothing
\* changes that afterwards; res.end() is called at most once, by the
\* completion or the failure path only; cleanup may run again (once per
\* listener event, also after completion) and then changes nothing.
C4_OneTermination ==
  [][\A s \in Sessions :
       /\ sess'[s].endCalls <= 1
       /\ sess'[s].isFinished <=> sess'[s].outcome # "active"
       /\ sess'[s].isFinished <=> sess'[s].cleanupCalls >= 1
       /\ sess'[s].outcome = "completed" => sess'[s].endCalls = 1
       /\ sess'[s].outcome = "cancelled" => sess'[s].endCalls = 0
       /\ (sess[s].isFinished /\ SameRequest(s)) =>
            /\ sess'[s].isFinished
            /\ sess'[s].outcome = sess[s].outcome
            /\ sess'[s].endCalls = sess[s].endCalls
            /\ sess'[s].writes = sess[s].writes]_vars

C4_Witness ==
  \E s \in Sessions :
    /\ sess[s].outcome = "completed" /\ sess[s].endCalls = 1
    /\ sess[s].cleanupCalls >= 2

\* C5: a download whose size is not a number, below 0.1 or above 10 gets
\* the 400 response and nothing else: no write, no listener, no
\* continuation, no buffer, the cache untouched; 0.1 and 10 are accepted.
C5_Validation ==
  [][\A s \in Sessions :
       (~SameRequest(s) /\ sess'[s].kind = "download") =>
         LET r == sess'[s]
         IN  IF r.size.nan \/ r.size.n * 10 < r.size.d
                \/ r.size.n > 10 * r.size.d
             THEN /\ r.status = 400
                  /\ r.writes = <<>> /\ r.endCalls = 0
                  /\ ~r.listening /\ r.pending = {}
                  /\ r.testData = NoBuffer /\ r.offset = 0 /\ ~r.isFinished
                  /\ testDataCache' = testDataCache /\ nextId' = nextId
             ELSE r.status # 400 /\ r.testData # NoBuffer]_vars

C5_Witness ==
  \E s \in Sessions :
    /\ sess[s].kind = "download" /\ sess[s].size = Num(1001, 100)
    /\ sess[s].status = 400 /\ requests = 2

\* Math.round(size * 1024 * 1024) for a size n/d >= 0.
RoundedBytes(size) == (2 * size.n * 1048576 + size.d) \div (2 * size.d)

\* Math.floor(size * 1024 * 1024) for a size n/d >= 0.
WholeBytes(size) == (size.n * 1048576) \div size.d

\* C6, as stated: every buffer has length round(size * 1024 * 1024).
C6_Original ==
  \A key \in DOMAIN testDataCache :
    testDataCache[key].len = RoundedBytes(key[1])

\* C6, amended: every buffer has length floor(size * 1024 * 1024), the byte
\* count cut to a whole number, so 0.1 MB is 104857 bytes; and the buffer a
\* download streams has that length.
C6_Length ==
  /\ \A key \in DOMAIN testDataCache :
       /\ testDataCache[key].len = WholeBytes(key[1])
       /\ key[1] = Num(1, 10) => testDataCache[key].len = 104857
  /\ \A s \in Sessions :
       (sess[s].kind = "download" /\ sess[s].testData # NoBuffer) =>
         sess[s].testData.len = WholeBytes(sess[s].size)

C6_Witness ==
  /\ <<Num(13, 100), "zeros">> \in DOMAIN testDataCache
  /\ testDataCache[<<Num(13, 100), "zeros">>].len = 136314

\* The indices at which the content of a buffer is compared: both ends, the
\* middle, and the places where the byte sequence wraps.
SampleIndices(len) ==
  {i \in {0, 1, 2, 3, 255, 256, 257, 511, 512, len \div 2, len - 2, len - 1} :
     0 <= i /\ i < len}

\* C7: a buffer made for "incompressible" holds (i * 137 + 19) mod 256 at
\* index i, the loop that writes it covering the whole buffer, and a buffer
\* made for "compressible" holds 0x41 everywhere.
C7_Content ==
  \A key \in DOMAIN testDataCache :
    LET buffer == testDataCache[key]
    IN  /\ key[2] = "incompressible" =>
             /\ buffer.fill.how = "loop" /\ buffer.fill.upto >= buffer.len
             /\ \A i \in SampleIndices(buffer.len) :
                  ByteAt(buffer, i) = (i * 137 + 19) % 256
        /\ key[2] = "compressible" =>
             /\ buffer.fill.how = "alloc"
             /\ \A i \in SampleIndices(buffer.len) : ByteAt(buffer, i) = 65

C7_Witness ==
  /\ <<Num(1, 10), "incompressible">> \in DOMAIN testDataCache
  /\ <<Num(1, 10), "compressible">> \in DOMAIN testDataCache

\* C8: a call for a key the cache holds is a hit: it generates nothing and
\* returns the buffer the cache held, so an entry, once made, stays the
\* same object; a buffer is generated exactly when a key is new, and the
\* buffer a download streams is the cached one.
C8_CacheHit ==
  [][/\ \A key \in DOMAIN testDataCache :
          key \in DOMAIN testDataCache' /\ testDataCache'[key] = testDataCache[key]
     /\ nextId' - nextId =
          Cardinality(DOMAIN testDataCache' \ DOMAIN testDataCache)
     /\ \A s \in Sessions :
          (~SameRequest(s) /\ sess'[s].kind = "download"
             /\ sess'[s].testData # NoBuffer) =>
            LET key == <<sess'[s].size, sess'[s].pattern>>
            IN  /\ key \in DOMAIN testDataCache'
                /\ sess'[s].testData = testDataCache'[key]
                /\ key \in DOMAIN testDataCache =>
                     sess'[s].testData = testDataCache[key]]_vars

C8_Witness ==
  \E s \in Sessions :
    /\ sess[s].kind = "download" /\ sess[s].writes # <<>>
    /\ sess[s].testData = Startup.cache[<<Num(1, 10), "compressible">>]
    /\ nextId = Startup.nextId

\* C9: an adaptive download writes only in a tick whose elapsed time is
\* below the duration; the first tick that finds the duration reached ends
\* the response and sets the finished flag without writing, and nothing is
\* written afterwards.
C9_NoWriteAfterDuration ==
  [][\A s \in Sessions :
       sess'[s].kind = "adaptive" =>
         LET r    == sess'[s]
             old  == IF SameRequest(s) THEN Len(sess[s].writes) ELSE 0
             due  == r.clock * r.duration.d >= 1000 * r.duration.n
             tick == \/ ~SameRequest(s) /\ r.status = 0
                     \/ /\ SameRequest(s) /\ ~Stopped(sess[s])
                        /\ \E cont \in sess[s].pending \ r.pending :
                             cont.call = "sendData"
         IN  /\ Len(r.writes) > old => ~due
             /\ (tick /\ due) =>
                  /\ r.endCalls = 1 /\ r.isFinished
                  /\ r.outcome = "completed" /\ Len(r.writes) = old
             /\ (SameRequest(s) /\ sess[s].isFinished) =>
                  r.writes = sess[s].writes]_vars

C9_Witness ==
  \E s \in Sessions :
    /\ sess[s].kind = "adaptive" /\ sess[s].outcome = "completed"
    /\ sess[s].endCalls = 1 /\ Len(sess[s].writes) >= 2
    /\ sess[s].via = "timeout" /\ sess[s].lastRun = "end"

\* The payloads of a warmup: sizes in MB and in bytes.
WarmupSizes == <<Num(1, 10), Num(1, 2), Num(1, 1), Num(2, 1)>>

WarmupBytes == <<104857, 524288, 1048576, 2097152>>

\* C10: a warmup writes the payloads of 0.1, 0.5, 1 and 2 MB, whole and in
\* that order, never a fifth; a warmup that completes has written all four,
\* and the response is not ended earlier unless a write failed.
C10_FourPhases ==
  \A s \in Sessions :
    sess[s].kind = "warmup" =>
      /\ Len(sess[s].writes) <= 4
      /\ \A k \in 1..Len(sess[s].writes) :
           /\ <<WarmupSizes[k], "random">> \in DOMAIN testDataCache
           /\ sess[s].writes[k] =
                [buf |-> testDataCache[<<WarmupSizes[k], "random">>].id,
                 from |-> 0, len |-> WarmupBytes[k]]
      /\ sess[s].outcome = "completed" =>
           Len(sess[s].writes) = 4 /\ sess[s].endCalls = 1
      /\ (sess[s].endCalls > 0 /\ sess[s].outcome # "failed") =>
           Len(sess[s].writes) = 4

C10_Witness ==
  \E s \in Sessions :
    /\ sess[s].kind = "warmup" /\ sess[s].outcome = "completed"
    /\ Len(sess[s].writes) = 4 /\ sess[s].endCalls = 1

\* The latencies a probe has collected, in clock units.
Latencies == [k \in 1..Len(probe.measurements) |-> probe.measurements[k].latency]

\* The count a probe was asked for, when it is a whole number.
RequestedCount == probe.requested.hundredths \div 100

\* A text of toFixed(3), in thousandths of a millisecond, is the nearest
\* one to a value given as a fraction num/den of clock units.
Nearest(text, num, den) ==
  LET diff == (Resolution \div 1000) * text * den - num
  IN  2 * Abs(diff) <= (Resolution \div 1000) * den

\* A probe takes its measurements at least 100 ms apart and answers only
\* with the last of them.
ProbeCollects ==
  /\ \A k \in 1..(Len(Latencies) - 1) :
       Latencies[k + 1] - Latencies[k] >= 100 * Resolution
  /\ probe.completed = Len(probe.measurements)
  /\ probe.state = "running" =>
       probe.measurements # <<>> /\ Lt(Num(probe.completed, 1), probe.count)
  /\ (probe.state = "done" /\ probe.requested.numeric) =>
       /\ RequestedCount \in 1..10 => Len(probe.measurements) = RequestedCount
       /\ RequestedCount > 10 => Len(probe.measurements) = 10

\* C11, as stated: the statistics reported are the mean, the least and the
\* greatest of the latencies, and the jitter reported is the maximum
\* reported minus the minimum reported.
C11_Original ==
  /\ ProbeCollects
  /\ probe.state = "done" =>
       LET st == probe.statistics
       IN  /\ (Resolution \div 1000) * st.average * Len(Latencies)
                = SumOf(Latencies)
           /\ (Resolution \div 1000) * st.minimum = MinOf(Latencies)
           /\ (Resolution \div 1000) * st.maximum = MaxOf(Latencies)
           /\ st.jitter = st.maximum - st.minimum

\* C11, amended: a probe asked for c in 1..10 measurements answers with
\* exactly c (10 when asked for more), taken at least 100 ms apart, and
\* reports, each as the text with three decimals nearest to it: the mean of
\* those latencies, their least, their greatest, and the greatest minus the
\* least, computed before either is cut to three decimals.
C11_Statistics ==
  /\ ProbeCollects
  /\ probe.state = "done" =>
       LET st == probe.statistics
       IN  /\ st.count = Len(Latencies)
           /\ Nearest(st.average, SumOf(Latencies), Len(Latencies))
           /\ Nearest(st.minimum, MinOf(Latencies), 1)
           /\ Nearest(st.maximum, MaxOf(Latencies), 1)
           /\ Nearest(st.jitter, MaxOf(Latencies) - MinOf(Latencies), 1)
           /\ \A k \in 1..Len(Latencies) :
                /\ MinOf(Latencies) <= Latencies[k]
                /\ Latencies[k] <= MaxOf(Latencies)

C11_Witness ==
  /\ probe.state = "done" /\ probe.requested = Hundredths(1270)
  /\ Len(probe.measurements) = 10
  /\ probe.statistics.jitter # probe.statistics.maximum - probe.statistics.minimum

\* The effective parameters of the adaptive downloads.
AdaptiveSessions == {s \in Sessions : sess[s].kind = "adaptive"}

\* C12, as stated: initialSize >= 0.1, maxSize <= 10, throttle >= 0.1, and
\* the duration is at most 10 and not below a positive floor.
C12_Original ==
  \A s \in AdaptiveSessions :
    /\ Ge(sess[s].initialSize, Num(1, 10))
    /\ Ge(Num(10, 1), sess[s].maxSize)
    /\ Ge(sess[s].throttle, Num(1, 10))
    /\ Ge(Num(10, 1), sess[s].duration)
    /\ Gt(sess[s].duration, Zero)

\* C12, amended: initialSize >= 0.1, maxSize <= 10, throttle >= 0.1, and the
\* duration is a whole number of seconds, at most 10 and never 0; it has no
\* floor, and a session whose duration is negative ends at once, having
\* written nothing.
C12_Parameters ==
  \A s \in AdaptiveSessions :
    /\ Ge(sess[s].initialSize, Num(1, 10))
    /\ Ge(Num(10, 1), sess[s].maxSize)
    /\ Ge(sess[s].throttle, Num(1, 10))
    /\ Ge(Num(10, 1), sess[s].duration)
    /\ ~sess[s].duration.nan /\ sess[s].duration.d = 1 /\ sess[s].duration.n # 0
    /\ Lt(sess[s].duration, Zero) =>
         /\ sess[s].writes = <<>> /\ sess[s].isFinished
         /\ sess[s].endCalls = 1 /\ sess[s].outcome = "completed"

C12_Witness ==
  \E s \in AdaptiveSessions :
    /\ sess[s].duration = Num(-2, 1) /\ sess[s].initialSize = Num(20, 1)
    /\ sess[s].maxSize = Num(-5, 1) /\ sess[s].throttle = Num(1, 10)
    /\ sess[s].outcome = "completed" /\ requests = 2

\* C13: a session that a cancellation event has finished never calls
\* res.end() and sends no error response: whatever runs afterwards leaves
\* the response as the cancellation found it, a truncated stream.
C13_CancelledIsSilent ==
  [][\A s \in Sessions :
       /\ sess'[s].outcome = "cancelled" =>
            sess'[s].endCalls = 0 /\ sess'[s].status = 0
       /\ (sess[s].outcome = "cancelled" /\ SameRequest(s)) =>
            /\ sess'[s].outcome = "cancelled"
            /\ sess'[s].endCalls = sess[s].endCalls
            /\ sess'[s].status = sess[s].status
            /\ sess'[s].headersSent = sess[s].headersSent
            /\ sess'[s].writes = sess[s].writes]_vars

C13_Witness ==
  \E s \in Sessions :
    /\ sess[s].kind = "warmup" /\ sess[s].outcome = "cancelled"
    /\ sess[s].currentPhase = Len(phases) /\ Len(sess[s].writes) = Len(phases)
    /\ sess[s].via = "timeout" /\ sess[s].lastRun = "noop"
    /\ sess[s].endCalls = 0

\* C14: when the event loop runs the scheduled continuations and every
\* backpressure is followed by a drain, a download that streams, is not
\* cancelled and meets no write error terminates normally: the offset
\* reaches the length of the buffer, res.end() is called once and the
\* session is marked finished.
C14_Terminates ==
  \A s \in Single :
    (sess[s].kind = "download" /\ sess[s].listening) ~>
      (/\ sess[s].kind = "download" /\ sess[s].isFinished
       /\ sess[s].outcome = "completed" /\ sess[s].endCalls = 1
       /\ sess[s].offset = sess[s].testData.len
       /\ sess[s].pending = {})

C14_Witness ==
  \E s \in Single :
    /\ sess[s].kind = "download" /\ sess[s].outcome = "completed"
    /\ sess[s].offset = sess[s].testData.len /\ sess[s].via = "drain"
    /\ Len(sess[s].writes) = 8 /\ sess[s].req = 2

\* What a session's steps work on: its cursor, its phase index, its
\* finished flag, and what it has written and scheduled.
Closure(r) ==
  <<r.offset, r.currentPhase, r.isFinished, r.writes, r.endCalls, r.pending,
    r.testData>>

\* A session waits: for a drain, or for a timeout that is not due.
Suspended(r) ==
  /\ ~r.isFinished /\ r.pending # {}
  /\ \A cont \in r.pending :
       cont.on = "drain" \/ (cont.on = "timeout" /\ r.clock < cont.at)

\* The byte sequence a session has written is the one its own request
\* determines: slices of the buffer for its size and pattern that follow
\* one another from 0 (download), the payloads of the phases (warmup).
OwnBytes(r) ==
  /\ (r.kind = "download" /\ r.testData # NoBuffer) =>
       /\ r.testData.len = WholeBytes(r.size)
       /\ r.testData.fill = FillOf(r.pattern, MulMB(r.size))
       /\ \A k \in 1..Len(r.writes) :
            r.writes[k] =
              [buf |-> r.testData.id, from |-> 65536 * (k - 1),
               len |-> Min(65536, r.testData.len - 65536 * (k - 1))]
       /\ r.offset = Written(r.writes)
       /\ r.outcome = "completed" => r.offset = r.testData.len
  /\ r.kind = "warmup" =>
       /\ r.currentPhase = Len(r.writes)
       /\ \A k \in 1..Len(r.writes) :
            r.writes[k].from = 0 /\ r.writes[k].len = WarmupBytes[k]

\* C15: a step of one session leaves the cursor, the phase index, the
\* finished flag and the output of every other session as they were; while
\* a session waits for a drain or a delay, a callback of another session
\* that is ready can run; and what each session writes is what its own
\* request determines.
C15_Independent ==
  [][\A s \in Sessions :
       /\ OwnBytes(sess'[s])
       /\ \A t \in Sessions \ {s} :
            /\ Closure(sess'[s]) # Closure(sess[s]) =>
                 Closure(sess'[t]) = Closure(sess[t])
            /\ (Suspended(sess[s])
                  /\ \E cont \in sess[t].pending : cont.on = "immediate") =>
                 ENABLED (\E w \in WriteResults : RunImmediate(t, w))]_vars

C15_Witness ==
  /\ sess[1].kind = "warmup" /\ sess[2].kind = "download"
  /\ Suspended(sess[1]) /\ Len(sess[1].writes) = 2
  /\ sess[2].outcome = "completed" /\ Len(sess[2].writes) = 3
  /\ sess[2].req = 2

\* C16: a download sends the 500 response only when nothing has been sent:
\* it is sent by the handler, before any write, and never together with
\* streamed bytes; once a chunk is written the status stays unset, and a
\* write that throws finishes the session and sends nothing.
C16_ErrorBeforeBytes ==
  [][\A s \in Sessions :
       sess'[s].kind = "download" =>
         /\ sess'[s].status = 500 =>
              /\ sess'[s].writes = <<>> /\ sess'[s].endCalls = 0
              /\ ~SameRequest(s)
         /\ sess'[s].writes # <<>> => sess'[s].status = 0
         /\ sess'[s].lastRun = "caught" =>
              /\ sess'[s].status = 0 /\ sess'[s].isFinished
              /\ sess'[s].endCalls = 0
              /\ SameRequest(s) =>
                   /\ sess'[s].writes = sess[s].writes
                   /\ sess'[s].headersSent = sess[s].headersSent]_vars

C16_Witness ==
  \E s \in Sessions :
    /\ sess[s].kind = "download" /\ sess[s].lastRun = "caught"
    /\ sess[s].outcome = "failed" /\ Len(sess[s].writes) = 1
    /\ sess[s].status = 0 /\ sess[s].headersSent
    /\ <<Num(1, 10), "x\ny">> \in DOMAIN testDataCache /\ sess[s].req = 2

\* B * 8 / ((T / 1000) * 1024 * 1024) for B bytes and T > 0 ms, by way of
\* B * (125 / 16384) / T.
Throughput(size, totalTime) ==
  Over(Times(Num(size, 1), Num(125, 16384)), totalTime)

\* A text of toFixed(3), given in thousandths, is the nearest one to x >= 0.
NearestText(text, x) ==
  LET k == text - 1000 * (x.n \div x.d)
  IN  2 * Abs(k * x.d - 1000 * (x.n % x.d)) <= x.d

\* The throughput reported for every upload is that of the formula.
ReportsThroughput ==
  upload.status = 200 =>
    /\ upload.totalTime = Minus(upload.receiveEndTime, upload.clientStartTime)
    /\ Gt(upload.totalTime, Zero) =>
         NearestText(upload.speedMbps, Throughput(upload.size, upload.totalTime))
    /\ ~Gt(upload.totalTime, Zero) => upload.speedMbps = 0

\* An upload of 10 MB whose total time is 500 ms.
TenMBInHalfASecond ==
  /\ upload.status = 200 /\ upload.size = 10 * 1024 * 1024
  /\ upload.totalTime = Num(500, 1)

\* C17, as stated: the throughput reported is B*8 / ((T/1000)*1024*1024),
\* and for 10 MB in 500 ms it is about 167.77 Mbps.
C17_Original ==
  /\ ReportsThroughput
  /\ TenMBInHalfASecond =>
       (167760 <= upload.speedMbps /\ upload.speedMbps <= 167780)

\* C17, amended: the throughput reported is B*8 / ((T/1000)*1024*1024),
\* as the text with three decimals nearest to it, and 0.000 when T is not
\* positive; for 10 MB in 500 ms it is 160.000 Mbps.
C17_Throughput ==
  /\ ReportsThroughput
  /\ TenMBInHalfASecond => upload.speedMbps = 160000

C17_Witness ==
  /\ TenMBInHalfASecond /\ upload.route = "upload-multi"
  /\ upload.speedMbps = 160000

\* C18: the offset of a download lies between 0 and the length of the
\* buffer, no step decreases it, and what has been written is the first
\* offset bytes of the buffer: slices that follow one another from 0 and end
\* at the offset.
C18_OffsetInvariant ==
  [][\A s \in Sessions :
       (sess'[s].kind = "download" /\ sess'[s].testData # NoBuffer) =>
         /\ 0 <= sess'[s].offset
         /\ sess'[s].offset <= sess'[s].testData.len
         /\ ConsecutiveSlices(sess'[s].writes, sess'[s].testData.id)
         /\ Written(sess'[s].writes) = sess'[s].offset
         /\ SameRequest(s) =>
              /\ sess'[s].offset >= sess[s].offset
              /\ sess'[s].testData = sess[s].testData
              /\ \A k \in 1..Len(sess[s].writes) :
                   sess'[s].writes[k] = sess[s].writes[k]]_vars

C18_Witness ==
  \E s \in Sessions :
    /\ sess[s].kind = "download" /\ sess[s].testData.len = 136314
    /\ sess[s].offset = 131072 /\ sess[s].needDrain /\ ~sess[s].isFinished

\* C19: a download that completes has made ceil(N / 65536) writes for its
\* N bytes: chunks of 65536 bytes, but for the last, which holds what is
\* left over when N is no multiple of 65536; no chunk is empty.
C19_ChunkCount ==
  \A s \in Sessions :
    (sess[s].kind = "download" /\ sess[s].testData # NoBuffer) =>
      LET N  == sess[s].testData.len
          ws == sess[s].writes
      IN  /\ \A k \in 1..Len(ws) :
               /\ ws[k].len > 0
               /\ k < (N + 65535) \div 65536 => ws[k].len = 65536
               /\ (k = (N + 65535) \div 65536 /\ N % 65536 # 0) =>
                    ws[k].len = N - 65536 * (N \div 65536)
               /\ (k = (N + 65535) \div 65536 /\ N % 65536 = 0) =>
                    ws[k].len = 65536
          /\ Len(ws) <= (N + 65535) \div 65536
          /\ sess[s].outcome = "completed" => Len(ws) = (N + 65535) \div 65536

C19_Witness ==
  \E s \in Sessions :
    /\ sess[s].kind = "download" /\ sess[s].outcome = "completed"
    /\ sess[s].testData.len = 524288 /\ Len(sess[s].writes) = 8
    /\ sess[s].req = 2

\* The delays after the payloads of a warmup, in ms.
WarmupDelays == <<100, 150, 200, 250>>

\* A step of warmup s keeps the schedule of the phases.  After the write of
\* phase k that reports backpressure only a drain listener is pending (for
\* the phases in waits), and the drain starts the delay of phase k; after a
\* write that does not have to wait, the delay of phase k starts at once;
\* a phase is written, and the response ended, only by a timeout that is
\* due.
WarmupSchedule(s, waits) ==
  LET r     == sess[s]
      r2    == sess'[s]
      k     == Len(r2.writes)
      wrote == Len(r2.writes) > (IF SameRequest(s) THEN Len(r.writes) ELSE 0)
      due   == {cont \in r.pending \ r2.pending :
                  cont.on = "timeout" /\ r.clock >= cont.at}
  IN  r2.kind = "warmup" =>
        /\ (wrote /\ k \in waits /\ r2.needDrain) =>
             r2.pending = {Cont("drain", "timeout:sendPhase", r2.clock,
                                WarmupDelays[k])}
        /\ (wrote /\ ~(k \in waits /\ r2.needDrain)) =>
             r2.pending =
               {Cont("timeout",
                     IF k < 4 THEN "sendPhase" ELSE "endWarmup",
                     r2.clock + WarmupDelays[k], 0)}
        /\ (wrote /\ SameRequest(s)) =>
             /\ r2.via = "timeout" /\ ~r.needDrain
             /\ \E cont \in due : cont.call = "sendPhase"
        /\ SameRequest(s) =>
             \A cont \in r.pending \ r2.pending :
               cont.on = "drain" =>
                 /\ ~wrote /\ r2.clock = r.clock /\ ~r2.needDrain
                 /\ cont.delay = WarmupDelays[Len(r.writes)]
                 /\ r2.pending =
                      {Cont("timeout", "sendPhase", r.clock + cont.delay, 0)}
        /\ (SameRequest(s) /\ r2.endCalls > r.endCalls
              /\ r2.outcome = "completed") =>
             /\ Len(r.writes) = 4
             /\ \E cont \in due : cont.call = "endWarmup"

\* C20, as stated: every phase, the last one too, waits for the drain
\* before its delay starts.
C20_Original == [][\A s \in Sessions : WarmupSchedule(s, 1..4)]_vars

\* C20, amended: the phases but the last wait for the drain before their
\* delay starts; the delay of the last phase starts at its write, whether
\* or not the write reported backpressure.  The delay after phase k is the
\* k-th of 100, 150, 200, 250 ms, phase k + 1 is written only when that
\* delay has elapsed, and the response is ended only when the last delay
\* has elapsed.
C20_Schedule == [][\A s \in Sessions : WarmupSchedule(s, 1..3)]_vars

C20_Witness ==
  \E s \in Sessions :
    /\ sess[s].kind = "warmup" /\ sess[s].outcome = "completed"
    /\ sess[s].needDrain /\ Len(sess[s].writes) = 4
    /\ sess[s].clock >= 800

\* The step of session s writes a chunk.
Wrote(s) ==
  Len(sess'[s].writes) > (IF SameRequest(s) THEN Len(sess[s].writes) ELSE 0)

\* initial + (max - initial) * min(2 * elapsed / duration, 1)
Ramp(initial, max, elapsed, duration) ==
  Plus(initial,
       Times(Minus(max, initial),
             MathMin(Over(Times(Num(2, 1), elapsed), duration), Num(1, 1))))

\* The value of the ramp in the state after the step of adaptive session s.
RampNow(s) ==
  Ramp(sess'[s].initialSize, sess'[s].maxSize, Num(sess'[s].clock, 1000),
       sess'[s].duration)

\* What holds of the size of a writing tick when initial <= max.
RampShape(s) ==
  LET r  == sess[s]
      r2 == sess'[s]
  IN  (r2.kind = "adaptive" /\ Wrote(s)
         /\ Ge(r2.maxSize, r2.initialSize)) =>
        /\ r2.clock = 0 => r2.currentSize = r2.initialSize
        /\ 2 * r2.clock * r2.duration.d >= 1000 * r2.duration.n =>
             r2.currentSize = r2.maxSize
        /\ Ge(r2.maxSize, r2.currentSize)
        /\ SameRequest(s) => Ge(r2.currentSize, r.currentSize)

\* C21, as stated: the size used in a writing tick is the value of the
\* ramp, whatever the sizes asked for.
C21_Original ==
  [][\A s \in Sessions :
       (sess'[s].kind = "adaptive" /\ Wrote(s)) =>
         /\ sess'[s].currentSize = RampNow(s)
         /\ RampShape(s)]_vars

\* C21, amended: the size used in a writing tick is the smaller of the
\* value of the ramp initial + (max - initial) * min(2*elapsed/duration, 1)
\* and max; for a session with initial <= max it is the value of the ramp,
\* it equals initial at elapsed 0, does not decrease from tick to tick,
\* equals max in every tick with elapsed >= duration/2 and never exceeds
\* max.
C21_SizeUsed ==
  [][\A s \in Sessions :
       (sess'[s].kind = "adaptive" /\ Wrote(s)) =>
         /\ sess'[s].currentSize = MathMin(RampNow(s), sess'[s].maxSize)
         /\ Ge(sess'[s].maxSize, sess'[s].initialSize) =>
              sess'[s].currentSize = RampNow(s)
         /\ RampShape(s)]_vars

C21_Witness ==
  \E s \in Sessions :
    /\ sess[s].kind = "adaptive" /\ Len(sess[s].writes) >= 3
    /\ sess[s].initialSize = Num(1, 1) /\ sess[s].maxSize = Num(5, 1)
    /\ sess[s].currentSize = Num(5, 1)
    /\ sess[s].clock < 1000 /\ sess[s].outcome = "active"

\* The last write of session s, after the step, is the whole buffer that
\* the cache holds for a payload of size MB.
WroteChunkOf(s, size) ==
  LET r2  == sess'[s]
      key == <<size, r2.pattern>>
  IN  /\ key \in DOMAIN testDataCache'
      /\ r2.writes[Len(r2.writes)] =
           [buf |-> testDataCache'[key].id, from |-> 0,
            len |-> testDataCache'[key].len]

\* max(size * 0.03 * throttle, 0.05)
ChunkFor(size, throttle) ==
  MathMax(Times(Times(size, Num(3, 100)), throttle), Num(5, 100))

\* C22, as stated: the chunk of a writing tick has the size
\* max(targetSize * 0.03 * throttle, 0.05) MB, targetSize being the value
\* of the ramp.
C22_Original ==
  [][\A s \in Sessions :
       (sess'[s].kind = "adaptive" /\ Wrote(s)) =>
         WroteChunkOf(s, ChunkFor(RampNow(s), sess'[s].throttle))]_vars

\* C22, amended: the chunk of a writing tick is the payload that
\* generateTestData gives for max(currentSize * 0.03 * throttle, 0.05) MB,
\* currentSize being the smaller of the value of the ramp and max; the
\* size asked for is never below 0.05 MB and the chunk never shorter than
\* the 52428 bytes of a payload of 0.05 MB.
C22_ChunkSize ==
  [][\A s \in Sessions :
       (sess'[s].kind = "adaptive" /\ Wrote(s)) =>
         LET r2   == sess'[s]
             size == ChunkFor(MathMin(RampNow(s), r2.maxSize), r2.throttle)
         IN  /\ WroteChunkOf(s, size)
             /\ Ge(size, Num(5, 100))
             /\ r2.writes[Len(r2.writes)].len >= 52428]_vars

C22_Witness ==
  \E s \in Sessions :
    /\ sess[s].kind = "adaptive" /\ Len(sess[s].writes) >= 2
    /\ sess[s].throttle = Num(1, 10)
    /\ sess[s].writes[1].len = 52428
    /\ sess[s].writes[Len(sess[s].writes)].len = 52428
    /\ sess[s].currentSize = Num(5, 1)

\* min(300, 100 + elapsed * 10 / throttle)
DelayFor(elapsed, throttle) ==
  MathMin(Num(300, 1),
          Plus(Num(100, 1), Over(Times(elapsed, Num(10, 1)), throttle)))

\* The throttles of the requests, and the times a tick can read, in ms.
Throttles == {Num(1, 10), Num(1, 1)}

TickTimes(upTo) == {k * ClockStep : k \in 0..(upTo \div ClockStep)}

\* After a write of adaptive session s one continuation is pending: a
\* timeout due after the whole milliseconds of the delay, or, after a
\* write that reported backpressure, a drain listener that will set that
\* timeout.  unit is the number of units of elapsed time in a second.
DelayAfterWrite(s, unit) ==
  LET r2    == sess'[s]
      delay == DelayFor(Num(r2.clock, unit), r2.throttle)
  IN  (r2.kind = "adaptive" /\ Wrote(s)) =>
        /\ r2.pending =
             {IF r2.needDrain
              THEN Cont("drain", "timeout:sendData", r2.clock, Trunc(delay))
              ELSE Cont("timeout", "sendData", r2.clock + Trunc(delay), 0)}
        /\ Ge(delay, Num(100, 1)) /\ Ge(Num(300, 1), delay)
        /\ \A t \in TickTimes(r2.clock) :
             Ge(delay, DelayFor(Num(t, unit), r2.throttle))
        /\ \A throttle \in Throttles :
             Ge(throttle, r2.throttle) =>
               Ge(delay, DelayFor(Num(r2.clock, unit), throttle))

\* C23, as stated: the delay is min(300, 100 + elapsed * 10 / throttle)
\* with the elapsed time in milliseconds.
C23_Original == [][\A s \in Sessions : DelayAfterWrite(s, 1)]_vars

\* C23, amended: after every adaptive write the next tick is scheduled
\* after min(300, 100 + elapsed * 10 / throttle) ms with the elapsed time of
\* the session in seconds; the delay is between 100 and 300 ms, not below
\* the delay of any earlier time, and not above the delay of a lower
\* throttle.
C23_Delay == [][\A s \in Sessions : DelayAfterWrite(s, 1000)]_vars

C23_Witness ==
  \E s \in Sessions :
    /\ sess[s].kind = "adaptive" /\ Len(sess[s].writes) >= 2
    /\ sess[s].throttle = Num(1, 10)
    /\ \E cont \in sess[s].pending :
         cont.on = "timeout" /\ cont.at = sess[s].clock + 120

\* C24: in an adaptive session a step makes at most one write; while the
\* response needs a drain only a drain listener is pending, so nothing is
\* written and no delay runs; the drain event writes nothing and starts
\* the delay, which counts from the drain; and a tick writes only when a
\* timeout that is due calls it.
C24_AdaptiveBackpressure ==
  [][\A s \in Sessions :
       sess'[s].kind = "adaptive" =>
         LET r   == sess[s]
             r2  == sess'[s]
             old == IF SameRequest(s) THEN Len(r.writes) ELSE 0
         IN  /\ Len(r2.writes) <= old + 1
             /\ r2.needDrain => \A cont \in r2.pending : cont.on = "drain"
             /\ (Wrote(s) /\ SameRequest(s)) =>
                  /\ ~r.needDrain /\ r2.via = "timeout"
                  /\ \E cont \in r.pending \ r2.pending :
                       /\ cont.on = "timeout" /\ cont.call = "sendData"
                       /\ r.clock >= cont.at
             /\ SameRequest(s) =>
                  \A cont \in r.pending \ r2.pending :
                    cont.on = "drain" =>
                      /\ r.needDrain /\ ~r2.needDrain /\ ~Wrote(s)
                      /\ r2.pending =
                           {Cont("timeout", "sendData", r.clock + cont.delay,
                                 0)}]_vars

C24_Witness ==
  \E s \in Sessions :
    /\ sess[s].kind = "adaptive" /\ Len(sess[s].writes) = 1
    /\ sess[s].via = "drain" /\ ~sess[s].needDrain
    /\ sess[s].clock > 0 /\ sess[s].outcome = "active"
    /\ sess[s].pending =
         {Cont("timeout", "sendData", sess[s].clock + 100, 0)}

\* C25: a stream session has at most one pending continuation, a
\* setImmediate callback, a timeout or a drain listener, so that no two
\* calls of sendChunk, sendPhase or sendData are outstanding at once.
C25_OneContinuation ==
  \A s \in Sessions :
    /\ Cardinality(sess[s].pending) <= 1
    /\ \A cont \in sess[s].pending :
         /\ cont.on \in {"immediate", "timeout", "drain"}
         /\ cont.on = "drain" => sess[s].needDrain \/ sess[s].isFinished

C25_Witness ==
  \E s \in Sessions :
    /\ sess[s].kind = "warmup" /\ Len(sess[s].writes) = 3
    /\ sess[s].outcome = "active"
    /\ \E cont \in sess[s].pending : cont.on = "drain"

\* C26: once a stream session is finished it stays finished, and a step of
\* it that follows writes nothing, does not end the response and adds no
\* continuation to the pending ones.
C26_Absorbing ==
  [][\A s \in Sessions :
       (SameRequest(s) /\ sess[s].isFinished) =>
         /\ sess'[s].isFinished
         /\ sess'[s].writes = sess[s].writes
         /\ sess'[s].endCalls = sess[s].endCalls
         /\ sess'[s].pending \subseteq sess[s].pending]_vars

\* The step of session s ends in the catch of sendChunk, sendPhase or
\* sendData.
Caught(s) ==
  /\ sess'[s].lastRun = "caught"
  /\ \/ ~SameRequest(s)
     \/ sess[s].pending # sess'[s].pending
     \/ sess[s].lastRun # "caught"

\* C27: the step in which a write of a stream session throws finishes the
\* session: the failed write is not counted, the offset and the phase
\* index stay where they were, nothing is left pending, and no step of the
\* failed session writes again.
C27_WriteFailure ==
  [][\A s \in Sessions :
       LET r   == IF SameRequest(s) THEN sess[s] ELSE IdleSession
           r2  == sess'[s]
       IN  /\ Caught(s) =>
                /\ r2.isFinished /\ r2.outcome = "failed"
                /\ r2.writes = r.writes
                /\ r2.offset = r.offset
                /\ r2.currentPhase = r.currentPhase
                /\ r2.pending = {}
           /\ (SameRequest(s) /\ sess[s].outcome = "failed") =>
                /\ r2.writes = r.writes /\ r2.isFinished
                /\ r2.pending = {}]_vars

C27_Witness ==
  \E s \in Sessions :
    /\ sess[s].kind = "warmup" /\ sess[s].outcome = "failed"
    /\ sess[s].lastRun = "caught" /\ sess[s].via = "timeout"
    /\ Len(sess[s].writes) = 2 /\ sess[s].currentPhase = 2
    /\ sess[s].pending = {}

\* The downloads that stream a payload.
Streaming == {s \in Sessions :
                sess[s].kind = "download" /\ sess[s].testData # NoBuffer}

\* C28: whatever the interleaving of the sessions, as many buffers were
\* generated as the cache has keys, each for one key; the sessions that
\* asked for a key stream the one buffer the cache holds for it; and a
\* cached buffer is the buffer that was generated for its key.
C28_GeneratedOnce ==
  /\ nextId = Cardinality(DOMAIN testDataCache)
  /\ \A k1 \in DOMAIN testDataCache :
       /\ testDataCache[k1].id \in 0..(nextId - 1)
       /\ testDataCache[k1] = NewBuffer(testDataCache[k1].id, k1[1], k1[2])
       /\ \A k2 \in DOMAIN testDataCache :
            testDataCache[k1].id = testDataCache[k2].id => k1 = k2
  /\ \A s \in Streaming :
       LET key == <<sess[s].size, sess[s].pattern>>
       IN  /\ key \in DOMAIN testDataCache
           /\ sess[s].testData = testDataCache[key]
           /\ \A t \in Streaming :
                <<sess[t].size, sess[t].pattern>> = key =>
                  sess[t].testData.id = sess[s].testData.id

C28_Witness ==
  /\ nextId = 17
  /\ \A s \in Sessions :
       /\ sess[s].kind = "download" /\ sess[s].pattern = "incompressible"
       /\ sess[s].testData.id = 16
       /\ sess[s].outcome = "active" /\ Len(sess[s].writes) >= 1

\* The keys of the payloads made at startup.
StartupKeys ==
  {<<size, pattern>> :
     size \in {Num(1, 10), Num(1, 2), Num(1, 1), Num(2, 1), Num(5, 1),
               Num(10, 1), Num(25, 1), Num(50, 1)},
     pattern \in {"random", "compressible"}}

\* C29: the cache starts with the 16 entries of the startup sizes and
\* patterns and never loses one; a step removes no key, leaves every entry
\* as it was, and adds at most one.
C29_NoEviction ==
  [][/\ DOMAIN Startup.cache = StartupKeys
     /\ Cardinality(StartupKeys) = 16
     /\ StartupKeys \subseteq DOMAIN testDataCache
     /\ DOMAIN testDataCache \subseteq DOMAIN testDataCache'
     /\ \A key \in DOMAIN testDataCache :
          testDataCache'[key] = testDataCache[key]
     /\ Cardinality(DOMAIN testDataCache' \ DOMAIN testDataCache) <= 1]_vars

C29_Witness ==
  /\ Cardinality(DOMAIN testDataCache) = 18
  /\ <<Num(5, 100), "random">> \in DOMAIN testDataCache
  /\ <<Num(13, 100), "zeros">> \in DOMAIN testDataCache
  /\ \E s \in Sessions :
       sess[s].kind = "adaptive" /\ Len(sess[s].writes) >= 2

\* C30: the k-th measurement of a probe has index k - 1, its latency is
\* its own time less the start time of the probe, it is taken no sooner
\* than the interval after the measurement before it, and the latencies
\* do not decrease; a probe that runs waits for the measurement whose index
\* is the number of those taken.
C30_InOrder ==
  LET ms == probe.measurements
  IN  /\ \A k \in 1..Len(ms) :
           /\ ms[k].index = k - 1
           /\ ms[k].latency = ms[k].serverTime - ms[k].clientStartTime
           /\ ms[k].latency >= 0
           /\ k > 1 =>
                /\ ms[k].serverTime - ms[k - 1].serverTime
                     >= Trunc(probe.interval) * Resolution
                /\ ms[k].latency >= ms[k - 1].latency
      /\ probe.state = "running" => probe.timer.index = Len(ms)

C30_Witness ==
  /\ probe.state = "done" /\ Len(probe.measurements) = 2
  /\ probe.interval = Num(250, 1)
  /\ probe.measurements[1].latency > 0
  /\ probe.measurements[2].latency
       > probe.measurements[1].latency + 250 * Resolution

\* C31: an adaptive session is eventually finished, and unless it is
\* cancelled or fails it is completed: a tick found the duration reached
\* and ended the response, once.
C31_AdaptiveTerminates ==
  \A s \in Single :
    (sess[s].kind = "adaptive") ~>
      /\ sess[s].isFinished
      /\ \/ sess[s].outcome \in {"cancelled", "failed"}
         \/ /\ sess[s].outcome = "completed" /\ sess[s].endCalls = 1
            /\ Ge(Elapsed(sess[s]), sess[s].duration)

C31_Witness ==
  \E s \in Single :
    /\ sess[s].kind = "adaptive" /\ sess[s].outcome = "completed"
    /\ ~sess[s].cancelled /\ sess[s].endCalls = 1
    /\ Len(sess[s].writes) >= 4 /\ sess[s].clock >= 1000

\* The patterns generateTestData knows.
KnownPatterns == {"random", "compressible", "incompressible"}

\* C32: a download with a pattern the generator does not know streams the
\* buffer the cache holds under the key of its size and that very pattern;
\* the buffer is made as the random one is, of the length asked for, and is
\* not the buffer of the pattern random; and no more buffers were made
\* than the cache has keys, so a later call did not make another.
C32_UnknownPattern ==
  /\ nextId = Cardinality(DOMAIN testDataCache)
  /\ \A s \in Streaming :
       sess[s].pattern \notin KnownPatterns =>
         LET key == <<sess[s].size, sess[s].pattern>>
             rnd == <<sess[s].size, "random">>
         IN  /\ key \in DOMAIN testDataCache
             /\ sess[s].testData = testDataCache[key]
             /\ sess[s].testData.fill =
                  [how |-> "randomBytes", value |-> 0, upto |-> 0]
             /\ sess[s].testData.len = AllocLength(MulMB(sess[s].size))
             /\ rnd \in DOMAIN testDataCache =>
                  testDataCache[rnd].id # sess[s].testData.id
             /\ \A t \in Streaming :
                  sess[t].pattern = sess[s].pattern
                    /\ sess[t].size = sess[s].size =>
                      sess[t].testData.id = sess[s].testData.id

C32_Witness ==
  /\ nextId = 17
  /\ \A s \in Sessions :
       /\ sess[s].kind = "download" /\ sess[s].pattern = "zeros"
       /\ sess[s].testData.id = 16 /\ sess[s].testData.len = 136314

\* C33: every upload is answered once; a request that brought no data is
\* answered with status 400 and the error "No data received", and with no
\* timing, size or speed; a request that brought data is answered with
\* status 200 and the size of the data.
C33_NoData ==
  upload.route # "none" =>
    /\ upload.responses = 1
    /\ ~upload.body.present =>
         upload = [NoUpload EXCEPT !.route = upload.route, !.responses = 1,
                                   !.status = 400,
                                   !.error = "No data received"]
    /\ upload.body.present =>
         /\ upload.status = 200 /\ upload.error = ""
         /\ upload.size = upload.body.size

C33_Witness ==
  /\ upload.route = "upload-multi" /\ ~upload.body.present
  /\ upload.status = 400 /\ upload.responses = 1

\* C34: the offset of a download never passes the length of the buffer,
\* and a download whose response was ended has its offset at the length of
\* the buffer, with as many bytes written as the Content-Length says; the
\* response is ended once at most.
C34_EndAtLength ==
  \A s \in Sessions :
    (sess[s].kind = "download" /\ sess[s].testData # NoBuffer) =>
      /\ sess[s].offset \in 0..sess[s].testData.len
      /\ sess[s].offset = Written(sess[s].writes)
      /\ sess[s].endCalls <= 1
      /\ sess[s].endCalls > 0 =>
           /\ sess[s].offset = sess[s].testData.len
           /\ sess[s].outcome = "completed"

C34_Witness ==
  \E s \in Sessions :
    /\ sess[s].kind = "download" /\ sess[s].endCalls = 1
    /\ sess[s].testData.len = 524288 /\ sess[s].offset = 524288
    /\ Len(sess[s].writes) = 8

\* C35: a stream session that failed, of whichever kind, has ended its
\* response unless the response was destroyed, and it has nothing pending.
C35_FailureEnds ==
  \A s \in Sessions :
    (sess[s].kind \in {"download", "warmup", "adaptive"}
       /\ sess[s].outcome = "failed") =>
      /\ sess[s].isFinished /\ sess[s].pending = {}
      /\ sess[s].destroyed \/ sess[s].endCalls = 1

\* C36: a tick of an adaptive session that goes past the test of the
\* duration, to write or to fail, has a duration above 0 and an elapsed
\* time from 0 up to, not including, the duration; and a session whose
\* duration is not above 0 is completed by the handler, its response ended
\* with nothing written.
C36_Progress ==
  [][\A s \in Sessions :
       (sess'[s].kind = "adaptive" /\ sess'[s].status = 0) =>
         LET r2 == sess'[s]
         IN  /\ (Wrote(s) \/ Caught(s)) =>
                  /\ Gt(r2.duration, Zero)
                  /\ r2.clock >= 0
                  /\ r2.clock * r2.duration.d < 1000 * r2.duration.n
             /\ ~Gt(r2.duration, Zero) =>
                  /\ r2.isFinished /\ r2.outcome = "completed"
                  /\ r2.writes = <<>> /\ r2.endCalls = 1
                  /\ r2.clock = 0 /\ r2.pending = {}]_vars

C36_Witness ==
  \E s \in Sessions :
    /\ sess[s].kind = "adaptive" /\ sess[s].duration = Num(-2, 1)
    /\ sess[s].outcome = "completed" /\ sess[s].endCalls = 1
    /\ sess[s].writes = <<>>

\* The number of measurements a probe of this count takes.
MeasurementsOf(count) == IF count.n >= 1 THEN count.n ELSE 1

\* C37: a probe that runs has not answered, has taken at least one
\* measurement and fewer than its count, and waits for its next one whether
\* or not the client has gone; a probe that is done has answered once,
\* after max(1, count) measurements, with statistics over all of them.
C37_OneResponse ==
  /\ probe.state = "idle" => probe.responses = 0
  /\ probe.state = "running" =>
       /\ probe.responses = 0
       /\ Len(probe.measurements) \in 1..(MeasurementsOf(probe.count) - 1)
       /\ probe.timer.index = Len(probe.measurements)
  /\ probe.state = "done" =>
       /\ probe.responses = 1
       /\ Len(probe.measurements) = MeasurementsOf(probe.count)
       /\ probe.statistics.count = Len(probe.measurements)
       /\ probe.completed = Len(probe.measurements)

C37_Witness ==
  /\ probe.state = "done" /\ probe.count = Num(-3, 1)
  /\ Len(probe.measurements) = 1 /\ probe.responses = 1

\* C38: the speed an upload reports is never negative, and it is 0 when
\* the total time, the second reading of the clock less the start the
\* client declared, is zero or negative.
C38_SpeedNotNegative ==
  upload.status = 200 =>
    /\ upload.speedMbps >= 0
    /\ upload.totalTime.n <= 0 => upload.speedMbps = 0
    /\ (upload.totalTime.n > 0 /\ upload.size >= 1024 * 1024) =>
         upload.speedMbps > 0

C38_Witness ==
  /\ upload.status = 200 /\ upload.size = 1024 * 1024
  /\ Gt(upload.clientStartTime, upload.receiveEndTime)
  /\ Lt(upload.totalTime, Zero) /\ upload.speedMbps = 0

\* The buffer made at startup for the k-th payload of a warmup.
StartupBuffer(k) == Startup.cache[<<WarmupSizes[k], "random">>]

\* C39: a step of a warmup session, its request included, leaves the cache
\* and the count of generated buffers as they were, and everything the
\* session has written so far is, in order, the whole of the buffers made
\* at startup for 0.1, 0.5, 1 and 2 MB of pattern random.
C39_WarmupHitsCache ==
  [][\A s \in Sessions :
       (sess'[s].kind = "warmup" /\ sess'[s] # sess[s]) =>
         /\ testDataCache' = testDataCache
         /\ nextId' = nextId
         /\ \A k \in 1..Len(sess'[s].writes) :
              /\ <<WarmupSizes[k], "random">> \in DOMAIN Startup.cache
              /\ sess'[s].writes[k] = Slice(StartupBuffer(k), 0, WarmupBytes[k])
              /\ testDataCache'[<<WarmupSizes[k], "random">>] = StartupBuffer(k)]_vars

C39_Witness ==
  \E s \in Sessions :
    /\ sess[s].kind = "warmup" /\ sess[s].req = 2
    /\ Len(sess[s].writes) = 4 /\ sess[s].currentPhase = 4
    /\ sess[s].writes[4].buf = StartupBuffer(4).id
    /\ nextId > Startup.nextId

\* The continuations of a session that lead to a call of sendPhase.
ToSendPhase(r) ==
  {cont \in r.pending : cont.call \in {"sendPhase", "timeout:sendPhase"}}

\* Session s completes in this step.
Completes(s) ==
  /\ sess'[s].outcome = "completed"
  /\ ~(SameRequest(s) /\ sess[s].outcome = "completed")

\* C40: a warmup that has made its fourth write has no call of sendPhase
\* scheduled, neither as a timeout nor behind a drain, so sendPhase never
\* runs with currentPhase >= phases.length; and the step in which a warmup
\* completes is the firing of the timeout set after the last phase, never
\* the handler and never a call of sendPhase.
C40_EndBranchUnreachable ==
  [][\A s \in Sessions :
       sess'[s].kind = "warmup" =>
         /\ sess'[s].currentPhase <= Len(phases)
         /\ sess'[s].currentPhase >= Len(phases) => ToSendPhase(sess'[s]) = {}
         /\ Completes(s) =>
              /\ SameRequest(s)
              /\ sess[s].currentPhase = Len(phases)
              /\ sess'[s].via = "timeout"
              /\ Len(sess'[s].writes) = Len(sess[s].writes)
              /\ \E cont \in sess[s].pending \ sess'[s].pending :
                   /\ cont.on = "timeout" /\ cont.call = "endWarmup"
                   /\ sess[s].clock >= cont.at]_vars

C40_Witness ==
  \E s \in Sessions :
    /\ sess[s].kind = "warmup" /\ sess[s].outcome = "completed"
    /\ sess[s].currentPhase = Len(phases) /\ sess[s].pending = {}
    /\ sess[s].via = "timeout" /\ sess[s].lastRun = "end"
    /\ sess[s].clock >= 700
====
